---------------------------- MODULE Spec2Model ----------------------------
(***************************************************************************)
(* A model of the livestream orchestrator: the stream repository           *)
(* (StreamStateService) over the shared Redis store, the owner-tagged      *)
(* Redis lock, the stream-creation idempotency mapping, and the lifecycle  *)
(* orchestrator (StreamOrchestratorService) with the routes and webhooks   *)
(* that drive it.                                                          *)
(*                                                                         *)
(* Every asynchronous call is a process slot.  A step of a call is one     *)
(* Redis command (or one call to LiveKit) together with the synchronous    *)
(* code that follows it up to the next await: this is the grain at which   *)
(* calls of one Node.js instance, and calls of different instances,        *)
(* interleave.  Redis is taken to be connected and the service to be       *)
(* initialised (redisService present, isInitialized = true).               *)
(***************************************************************************)
EXTENDS Integers, Sequences, FiniteSets, TLC

(***************************************************************************)
(* Bounds of the model.                                                    *)
(***************************************************************************)
MaxStreams == 2
MaxCalls == 3

Procs == {"c1", "c2"}
Instances == {"i1", "i2"}
\* the instance a call arrives at: slot c1 is served by i1, slot c2 by either
InstancesOf(p) == IF p = "c1" THEN {"i1"} ELSE Instances
\* the instance whose orchestrator, routes and webhooks serve slot p
Home(p) == IF p = "c1" THEN "i1" ELSE "i2"
StreamIds == 1 .. MaxStreams
\* stream ids a caller may name: the allocated ones and one that never exists
AnyId == 0 .. MaxStreams
Tokens == {"k1"}
Users == {"u1", "u2"}

\* enum StreamStatus
CREATING == "creating"
ACTIVE == "active"
STOPPING == "stopping"
STOPPED == "stopped"
ERROR == "error"
StreamStatus == {CREATING, ACTIVE, STOPPING, STOPPED, ERROR}

\* the absent key: redis GET gives null, loadStream gives null
MetaKeys == {"title", "description"}
NoMeta == [k \in MetaKeys |-> "-"]
NoStream ==
  [id |-> 0, status |-> "absent", version |-> 0, stoppedAt |-> 0,
   metadata |-> NoMeta, participants |-> << >>]

\* no expectedVersion argument (undefined)
NoVersion == 0 - 1

VARIABLES
  store,      \* redis: stream:<id> -> the serialised stream
  locks,      \* redis: lock:<key> -> owner id, with the call that set it
  idem,       \* redis: idempotency:stream:<token> -> stream id
  nextId,     \* the next uuid createStream draws
  emitted,    \* the events emitStreamEvent has emitted, in order
  pc,         \* where each repository call is
  op,         \* the arguments of each repository call
  loc,        \* the locals of each repository call
  ret,        \* what each repository call returned
  orch,       \* the orchestrator, route or webhook call each slot runs
  rooms,      \* LiveKit: how often each of its methods was called
  calls,      \* the number of calls started
  ttlBreach,  \* history: a lock of this key expired while its holder ran
  applied,    \* history: mutations of each stream that reported success
  bus,        \* redis: the stream_events channel and what each instance got
  cache,      \* redis: idempotency:<method>:<path>:<token> -> cached response
  reqs,       \* the requests passing the idempotency middleware
  runs,       \* how often a route handler has run
  clients,    \* the client registries of GrpcService and WebSocketService
  broadcasts  \* the events handed to broadcastEvent so far: type, stream id and
              \* the handles the call removed from the grpc registry

vars ==
  << store, locks, idem, nextId, emitted, pc, op, loc, ret, orch, rooms,
     calls, ttlBreach, applied, bus, cache, reqs, runs, clients, broadcasts >>

\* the state of the transport layer, which the repository leaves alone
web == << cache, reqs, runs, clients, broadcasts >>

-----------------------------------------------------------------------------
(***************************************************************************)
(* Lock keys and the Redis lock.                                           *)
(***************************************************************************)
UpdateKey(s) == << "update", s, "-" >>
ParticipantKey(s, u) == << "participant", s, u >>
LockKeys ==
  {UpdateKey(s) : s \in AnyId}
    \cup {ParticipantKey(s, u) : s \in AnyId, u \in Users}

\* the methods of LiveKitService the orchestrator calls
LiveKitCalls == {"createRoom", "deleteRoom", "getRoom", "getParticipants"}

Free == [owner |-> "free", by |-> "-"]

\* SET lock:<key> <ownerId> NX EX ttl
AcquireLockNoNX(key, owner, p) == TRUE
AcquireLock(key, owner, p) == locks[key].owner = "free"

NoOp ==
  [kind |-> "none", sid |-> 0, status |-> "-", expected |-> NoVersion,
   user |-> "-", meta |-> NoMeta, token |-> "-", inst |-> "-", at |-> 0]

NoLoc ==
  [locked |-> FALSE, stream |-> NoStream, lockValue |-> "-",
   existingId |-> 0, previous |-> "-", note |-> "-"]

Null == [ok |-> FALSE, stream |-> NoStream]
Ok(stream) == [ok |-> TRUE, stream |-> stream]

\* the orchestrator, route or webhook call of a slot: which it is, how far it
\* got, the stream and the status it was asked for, the stream it was handed;
\* of a read: the status the promise of its first getStream resolves to, what
\* getRoom and getParticipants answered, the identities in the room
NoOrch ==
  [kind |-> "none", phase |-> "-", sid |-> 0, status |-> "-",
   expected |-> NoVersion, reused |-> FALSE,
   found |-> "-", room |-> "-", listed |-> "-", members |-> {}]

\* the channel before anything was published: `sent` counts the events of
\* each instance whose publish has run, `lost` holds those it failed for,
\* `channel` the published ones in the order redis got them, `cursor` how many
\* of them the subscriber of each instance has handled, `got` the ones it
\* passed on to its local subscribers (events are named by their place in
\* `emitted`)
NoTraffic ==
  [sent |-> [i \in Instances |-> 0], lost |-> {}, channel |-> << >>,
   cursor |-> [i \in Instances |-> 0], got |-> [i \in Instances |-> << >>]]

\* the requests in flight, the routes behind the middleware and the values of
\* the Idempotency-Key header ("-": no header)
Requests == {"r1", "r2"}
Endpoints == {"POST /streams", "DELETE /streams/1"}
HttpTokens == {"-", "t1"}
\* `idempotency:${req.method}:${req.path}:${idempotencyKey}`
CacheKey(endpoint, token) == << endpoint, token >>
CacheKeys == {CacheKey(e, t) : e \in Endpoints, t \in HttpTokens \ {"-"}}

IDEMPOTENCY_TTL == 3600

NoResponse == [status |-> 0, body |-> 0, headers |-> "-"]
\* no value under the key; a value that is not JSON
NoEntry == [kind |-> "none", response |-> NoResponse, ttl |-> 0]
Malformed == [kind |-> "invalid-json", response |-> NoResponse, ttl |-> IDEMPOTENCY_TTL]

NoRequest ==
  [pc |-> "idle", endpoint |-> "-", token |-> "-", found |-> "-", wrapped |-> FALSE,
   ran |-> FALSE, response |-> NoResponse]

\* the handles of a registry, and a handle that is not in it
Registries == {"grpc", "ws"}
Handles == {"h1", "h2"}
NoClient == [registered |-> FALSE, alive |-> FALSE, scope |-> {}, got |-> << >>]

Init ==
  /\ store = [s \in StreamIds |-> NoStream]
  /\ locks = [k \in LockKeys |-> Free]
  /\ idem = [t \in Tokens |-> 0]
  /\ nextId = 1
  /\ emitted = << >>
  /\ pc = [p \in Procs |-> "idle"]
  /\ op = [p \in Procs |-> NoOp]
  /\ loc = [p \in Procs |-> NoLoc]
  /\ ret = [p \in Procs |-> Null]
  /\ orch = [p \in Procs |-> NoOrch]
  /\ rooms = [c \in LiveKitCalls |-> 0]
  /\ calls = 0
  /\ ttlBreach = [k \in LockKeys |-> FALSE]
  /\ applied = [s \in StreamIds |-> 0]
  /\ bus = NoTraffic
  /\ cache = [k \in CacheKeys |-> NoEntry]
  /\ reqs = [r \in Requests |-> NoRequest]
  /\ runs = 0
  /\ clients = [g \in Registries |-> [h \in Handles |-> NoClient]]
  /\ broadcasts = << >>

-----------------------------------------------------------------------------
(***************************************************************************)
(* Helpers of the repository.                                              *)
(***************************************************************************)
Busy(p) == pc[p] \notin {"idle", "done"}

\* new Date(): time advances as calls arrive
Now == calls

\* the ids a caller can name: those createStream has allocated (a uuid cannot
\* be guessed); a stream that is not stored is one that was deleted
Known == {s \in StreamIds : s < nextId}

\* emitStreamEvent: the event as the local subscribers of instanceId get it
EmitNothing(type, s, inst) == emitted
Emit(type, s, inst) ==
  Append(emitted, [type |-> type, streamId |-> s, instanceId |-> inst])

\* loadStream: GET stream:<id>, null when the key is absent
LoadStream(s) == IF s \in StreamIds THEN store[s] ELSE NoStream

\* stream.version = (stream.version || 0) + 1
Bump(stream) == [stream EXCEPT !.version = @ + 1]

\* { ...stream.metadata, ...metadata }
Merge(old, new) == [k \in MetaKeys |-> IF new[k] # "-" THEN new[k] ELSE old[k]]

\* participants.findIndex(p => p.id === id), 0 for -1
FindIndexNone(parts, u) == 0
FindIndex(parts, u) ==
  IF \E i \in 1 .. Len(parts) : parts[i].id = u
    THEN CHOOSE i \in 1 .. Len(parts) :
           /\ parts[i].id = u
           /\ \A j \in 1 .. (i - 1) : parts[j].id # u
    ELSE 0

\* the call of slot p begins
Begin(p, o, first) ==
  /\ pc' = [pc EXCEPT ![p] = first]
  /\ op' = [op EXCEPT ![p] = o]
  /\ loc' = [loc EXCEPT ![p] = NoLoc]
  /\ ret' = [ret EXCEPT ![p] = Null]

\* where an orchestrator, route or webhook call is when it is over
Finished == {"-", "return", "raise", "notfound"}

\* a call made by a client of the repository itself (a route, a webhook, a test)
Client(p) ==
  /\ orch[p].phase \in Finished
  /\ ~Busy(p)
  /\ calls < MaxCalls
  /\ calls' = calls + 1
  /\ UNCHANGED << store, locks, idem, nextId, emitted, rooms, ttlBreach, applied,
                  bus, web >>

\* the inputs the model draws
Targets == {ACTIVE, STOPPED}
Expected == {NoVersion, 1}
Partials ==
  {[title |-> "a", description |-> "-"], [title |-> "-", description |-> "b"]}

LockKeyOf(o) ==
  IF o.kind \in {"status", "metadata"}
    THEN UpdateKey(o.sid)
    ELSE ParticipantKey(o.sid, o.user)

\* the finally block: releaseLock runs only if this call took the lock
AfterBodyNoFinally(p) == "done"
AfterBody(p) == IF loc[p].locked THEN "rel_get" ELSE "done"

\* the call of slot p goes on to `next` with locals l; a call that completes
\* keeps of its locals only the exit it took
Go(p, l, next) ==
  /\ loc' = [loc EXCEPT ![p] = IF next = "done" THEN [NoLoc EXCEPT !.note = l.note] ELSE l]
  /\ pc' = [pc EXCEPT ![p] = next]

\* what every step of a repository call leaves alone
Quiet == UNCHANGED << nextId, rooms, calls, bus, web >>

-----------------------------------------------------------------------------
(***************************************************************************)
(* RedisService.acquireLock and releaseLock, and the expiry of a lock.     *)
(***************************************************************************)
\* acquireLock of the status and metadata paths: no lock, return null
AcquireOrFailSoft(p) ==
  LET k == LockKeyOf(op[p]) IN
  /\ locks' = IF AcquireLock(k, op[p].inst, p)
                THEN [locks EXCEPT ![k] = [owner |-> op[p].inst, by |-> p]]
                ELSE locks
  /\ Go(p, [loc[p] EXCEPT !.locked = AcquireLock(k, op[p].inst, p)], "load")
  /\ ret' = [ret EXCEPT ![p] = Null]
  /\ UNCHANGED << store, idem, emitted, op, orch, ttlBreach, applied >>
  /\ Quiet
AcquireOrFail(p) ==
  LET k == LockKeyOf(op[p]) IN
  /\ IF AcquireLock(k, op[p].inst, p)
       THEN /\ locks' = [locks EXCEPT ![k] = [owner |-> op[p].inst, by |-> p]]
            /\ Go(p, [loc[p] EXCEPT !.locked = TRUE], "load")
       ELSE /\ locks' = locks
            /\ Go(p, [loc[p] EXCEPT !.note = "contention"], "done")
  /\ ret' = [ret EXCEPT ![p] = Null]
  /\ UNCHANGED << store, idem, emitted, op, orch, ttlBreach, applied >>
  /\ Quiet

\* acquireLock of the participant paths: no lock, log and go on
AcquireOrProceedHard(p) ==
  LET k == LockKeyOf(op[p]) IN
  /\ locks' = IF AcquireLock(k, op[p].inst, p)
                THEN [locks EXCEPT ![k] = [owner |-> op[p].inst, by |-> p]]
                ELSE locks
  /\ IF AcquireLock(k, op[p].inst, p)
       THEN Go(p, [loc[p] EXCEPT !.locked = TRUE], "load")
       ELSE Go(p, [loc[p] EXCEPT !.note = "contention"], "done")
  /\ UNCHANGED << store, idem, emitted, op, ret, orch, ttlBreach, applied >>
  /\ Quiet
AcquireOrProceed(p) ==
  LET k == LockKeyOf(op[p]) IN
  /\ IF AcquireLock(k, op[p].inst, p)
       THEN /\ locks' = [locks EXCEPT ![k] = [owner |-> op[p].inst, by |-> p]]
            /\ Go(p, [loc[p] EXCEPT !.locked = TRUE], "load")
       ELSE /\ locks' = locks
            /\ Go(p, [loc[p] EXCEPT !.locked = FALSE], "load")
  /\ UNCHANGED << store, idem, emitted, op, ret, orch, ttlBreach, applied >>
  /\ Quiet

\* releaseLock, first command: GET lock:<key>, compared with the owner id
ReleaseLockGet(p) ==
  LET v == locks[LockKeyOf(op[p])].owner IN
  /\ pc[p] = "rel_get"
  /\ Go(p, [loc[p] EXCEPT !.lockValue = v],
        IF v = op[p].inst THEN "rel_del" ELSE "done")
  /\ UNCHANGED << store, locks, idem, emitted, op, ret, orch, ttlBreach, applied >>
  /\ Quiet

\* releaseLock, second command: DEL lock:<key>
ReleaseLockDel(p) ==
  /\ pc[p] = "rel_del"
  /\ locks' = [locks EXCEPT ![LockKeyOf(op[p])] = Free]
  /\ Go(p, loc[p], "done")
  /\ UNCHANGED << store, idem, emitted, op, ret, orch, ttlBreach, applied >>
  /\ Quiet

\* the EX ttl of a lock runs out while the key is set
ExpireLockNoEX(k) ==
  /\ locks[k].owner # "free"
  /\ UNCHANGED vars
ExpireLock(k) ==
  /\ locks[k].owner # "free"
  /\ locks' = [locks EXCEPT ![k] = Free]
  /\ ttlBreach' = [ttlBreach EXCEPT ![k] = TRUE]
  /\ UNCHANGED << store, idem, emitted, pc, op, loc, ret, orch, applied >>
  /\ Quiet

-----------------------------------------------------------------------------
(***************************************************************************)
(* StreamStateService.updateStreamStatus                                   *)
(***************************************************************************)
\* expectedVersion !== undefined && stream.version !== undefined
\*   && stream.version !== expectedVersion
\* (createStream stores every stream with a version, so it is never undefined)
VersionMismatchIgnored(expected, stream) == FALSE
VersionMismatch(expected, stream) ==
  expected # NoVersion /\ stream.version # expected

StatusOp(s, status, expected, i) ==
  [NoOp EXCEPT !.kind = "status", !.sid = s, !.status = status,
               !.expected = expected, !.inst = i]

UpdateStreamStatus(p, targets, versions) ==
  \E s \in Known, status \in targets, expected \in versions, i \in InstancesOf(p) :
    /\ Client(p)
    /\ Begin(p, StatusOp(s, status, expected, i), "acq")
    /\ orch' = [orch EXCEPT ![p] = NoOrch]

UpdateStreamStatusAcquire(p) ==
  /\ pc[p] = "acq"
  /\ op[p].kind = "status"
  /\ AcquireOrFail(p)

\* the stream with the new status, as updateStreamStatus builds it
WithStatus(stream, status, now) ==
  [Bump(stream) EXCEPT
     !.status = status,
     !.stoppedAt = IF status = STOPPED THEN now ELSE @]

UpdateStreamStatusLoad(p) ==
  LET stream == LoadStream(op[p].sid) IN
  /\ pc[p] = "load"
  /\ op[p].kind = "status"
  /\ IF stream.status = "absent"
       THEN /\ Go(p, [loc[p] EXCEPT !.note = "notfound"], AfterBody(p))
       ELSE IF VersionMismatch(op[p].expected, stream)
         THEN /\ Go(p, [loc[p] EXCEPT !.note = "conflict"], AfterBody(p))
         ELSE Go(p, [loc[p] EXCEPT
                       !.stream = WithStatus(stream, op[p].status, Now),
                       !.previous = stream.status, !.note = "applied"], "save")
  /\ UNCHANGED << store, locks, idem, emitted, op, ret, orch, ttlBreach, applied >>
  /\ Quiet

UpdateStreamStatusSave(p) ==
  LET s == op[p].sid IN
  /\ pc[p] = "save"
  /\ op[p].kind = "status"
  /\ store' = [store EXCEPT ![s] = loc[p].stream]
  /\ emitted' =
       Emit(IF op[p].status = STOPPED THEN "stream_stopped" ELSE "stream_updated",
            s, op[p].inst)
  /\ ret' = [ret EXCEPT ![p] = Ok(loc[p].stream)]
  /\ Go(p, loc[p], AfterBody(p))
  /\ applied' = [applied EXCEPT ![s] = @ + 1]
  /\ UNCHANGED << locks, idem, op, orch, ttlBreach >>
  /\ Quiet

-----------------------------------------------------------------------------
(***************************************************************************)
(* StreamStateService.updateStreamMetadata                                 *)
(***************************************************************************)
MetadataOp(s, partial, i) ==
  [NoOp EXCEPT !.kind = "metadata", !.sid = s, !.meta = partial, !.inst = i]

UpdateStreamMetadata(p) ==
  \E s \in Known, partial \in Partials, i \in InstancesOf(p) :
    /\ Client(p)
    /\ Begin(p, MetadataOp(s, partial, i), "acq")
    /\ orch' = [orch EXCEPT ![p] = NoOrch]

UpdateStreamMetadataAcquire(p) ==
  /\ pc[p] = "acq"
  /\ op[p].kind = "metadata"
  /\ AcquireOrFail(p)

UpdateStreamMetadataLoad(p) ==
  LET stream == LoadStream(op[p].sid) IN
  /\ pc[p] = "load"
  /\ op[p].kind = "metadata"
  /\ IF stream.status = "absent"
       THEN /\ Go(p, [loc[p] EXCEPT !.note = "notfound"], AfterBody(p))
       ELSE Go(p, [loc[p] EXCEPT
                     !.stream = [Bump(stream) EXCEPT !.metadata = Merge(@, op[p].meta)],
                     !.note = "applied"], "save")
  /\ UNCHANGED << store, locks, idem, emitted, op, ret, orch, ttlBreach, applied >>
  /\ Quiet

UpdateStreamMetadataSave(p) ==
  LET s == op[p].sid IN
  /\ pc[p] = "save"
  /\ op[p].kind = "metadata"
  /\ store' = [store EXCEPT ![s] = loc[p].stream]
  /\ emitted' = Emit("stream_updated", s, op[p].inst)
  /\ ret' = [ret EXCEPT ![p] = Ok(loc[p].stream)]
  /\ Go(p, loc[p], AfterBody(p))
  /\ applied' = [applied EXCEPT ![s] = @ + 1]
  /\ UNCHANGED << locks, idem, op, orch, ttlBreach >>
  /\ Quiet

-----------------------------------------------------------------------------
(***************************************************************************)
(* StreamStateService.addParticipant and removeParticipant                 *)
(***************************************************************************)
\* the Participant handleParticipantJoined builds
NewParticipant(u, meta, now) ==
  [id |-> u, joinedAt |-> now, leftAt |-> 0, metadata |-> meta]

AddOp(s, u, meta, i) ==
  [NoOp EXCEPT !.kind = "add", !.sid = s, !.user = u, !.meta = meta,
               !.inst = i, !.at = Now + 1]

AddParticipant(p, users) ==
  \E s \in Known, u \in users, meta \in {NoMeta}, i \in InstancesOf(p) :
    /\ Client(p)
    /\ Begin(p, AddOp(s, u, meta, i), "acq")
    /\ orch' = [orch EXCEPT ![p] = NoOrch]

AddParticipantAcquire(p) ==
  /\ pc[p] = "acq"
  /\ op[p].kind = "add"
  /\ AcquireOrProceed(p)

\* the three branches of addParticipant on the reloaded stream
JoinedFresh(stream, o, now) ==
  LET parts == stream.participants
      i == FindIndex(parts, o.user)
      given == NewParticipant(o.user, o.meta, o.at)
  IN  IF i = 0
        THEN [Bump(stream) EXCEPT !.participants = Append(parts, given)]
        ELSE [Bump(stream) EXCEPT
                !.participants[i] = [given EXCEPT !.joinedAt = now]]
JoinedKeeping(stream, o, now) ==
  LET parts == stream.participants
      i == FindIndex(parts, o.user)
      given == NewParticipant(o.user, o.meta, o.at)
  IN  IF i = 0
        THEN [Bump(stream) EXCEPT !.participants = Append(parts, given)]
        ELSE [Bump(stream) EXCEPT
                !.participants[i] = [given EXCEPT !.joinedAt = parts[i].joinedAt]]
Joined(stream, o, now) ==
  LET parts == stream.participants
      i == FindIndex(parts, o.user)
      given == NewParticipant(o.user, o.meta, o.at)
  IN  IF i = 0
        THEN [Bump(stream) EXCEPT !.participants = Append(parts, given)]
        ELSE IF parts[i].leftAt = 0
          THEN [Bump(stream) EXCEPT
                  !.participants[i] = [given EXCEPT !.joinedAt = parts[i].joinedAt]]
          ELSE [Bump(stream) EXCEPT
                  !.participants[i] = [given EXCEPT !.joinedAt = now]]

\* the participant exists and has not left: the refresh that emits nothing
IsRefresh(stream, u) ==
  LET i == FindIndex(stream.participants, u) IN
  i # 0 /\ stream.participants[i].leftAt = 0

AddParticipantLoad(p) ==
  LET stream == LoadStream(op[p].sid) IN
  /\ pc[p] = "load"
  /\ op[p].kind = "add"
  /\ IF stream.status = "absent"
       THEN /\ Go(p, [loc[p] EXCEPT !.note = "notfound"], AfterBody(p))
       ELSE Go(p, [loc[p] EXCEPT
                     !.stream = Joined(stream, op[p], Now),
                     !.note = IF IsRefresh(stream, op[p].user)
                                THEN "refresh" ELSE "joined"], "save")
  /\ UNCHANGED << store, locks, idem, emitted, op, ret, orch, ttlBreach, applied >>
  /\ Quiet

AddParticipantSave(p) ==
  LET s == op[p].sid IN
  /\ pc[p] = "save"
  /\ op[p].kind = "add"
  /\ store' = [store EXCEPT ![s] = loc[p].stream]
  /\ emitted' = IF loc[p].note = "refresh"
                  THEN emitted
                  ELSE Emit("participant_joined", s, op[p].inst)
  /\ ret' = [ret EXCEPT ![p] = Ok(loc[p].stream)]
  /\ Go(p, loc[p], AfterBody(p))
  /\ applied' = [applied EXCEPT ![s] = @ + 1]
  /\ UNCHANGED << locks, idem, op, orch, ttlBreach >>
  /\ Quiet

RemoveOp(s, u, i) ==
  [NoOp EXCEPT !.kind = "remove", !.sid = s, !.user = u, !.inst = i]

RemoveParticipant(p, users) ==
  \E s \in Known, u \in users, i \in InstancesOf(p) :
    /\ Client(p)
    /\ Begin(p, RemoveOp(s, u, i), "acq")
    /\ orch' = [orch EXCEPT ![p] = NoOrch]

RemoveParticipantAcquire(p) ==
  /\ pc[p] = "acq"
  /\ op[p].kind = "remove"
  /\ AcquireOrProceed(p)

\* the participant is present and has not left: the only case that is saved
LeavesAgain(stream, u) == FindIndex(stream.participants, u) # 0
Leaves(stream, u) ==
  LET i == FindIndex(stream.participants, u) IN
  i # 0 /\ stream.participants[i].leftAt = 0

Left(stream, u, now) ==
  LET i == FindIndex(stream.participants, u) IN
  [Bump(stream) EXCEPT !.participants[i].leftAt = now]

RemoveParticipantLoad(p) ==
  LET stream == LoadStream(op[p].sid) IN
  /\ pc[p] = "load"
  /\ op[p].kind = "remove"
  /\ IF stream.status = "absent"
       THEN /\ Go(p, [loc[p] EXCEPT !.note = "notfound"], AfterBody(p))
            /\ ret' = ret
       ELSE IF Leaves(stream, op[p].user)
         THEN /\ Go(p, [loc[p] EXCEPT !.stream = Left(stream, op[p].user, Now),
                                       !.note = "left"], "save")
              /\ ret' = ret
         ELSE /\ Go(p, [loc[p] EXCEPT !.note = "unchanged"], AfterBody(p))
              /\ ret' = [ret EXCEPT ![p] = Ok(stream)]
  /\ UNCHANGED << store, locks, idem, emitted, op, orch, ttlBreach, applied >>
  /\ Quiet

RemoveParticipantSave(p) ==
  LET s == op[p].sid IN
  /\ pc[p] = "save"
  /\ op[p].kind = "remove"
  /\ store' = [store EXCEPT ![s] = loc[p].stream]
  /\ emitted' = Emit("participant_left", s, op[p].inst)
  /\ ret' = [ret EXCEPT ![p] = Ok(loc[p].stream)]
  /\ Go(p, loc[p], AfterBody(p))
  /\ applied' = [applied EXCEPT ![s] = @ + 1]
  /\ UNCHANGED << locks, idem, op, orch, ttlBreach >>
  /\ Quiet

-----------------------------------------------------------------------------
(***************************************************************************)
(* StreamStateService.createStream, getStream and deleteStream             *)
(***************************************************************************)
CreateOp(token, i) ==
  [NoOp EXCEPT !.kind = "create", !.sid = NoVersion, !.token = token,
               !.inst = i]

\* if (idempotencyKey && ...): the check runs only when a key is given
FirstOfCreate(token) == IF token # "-" THEN "c_get" ELSE "c_save"

CreateStream(p, tokens) ==
  \E token \in tokens, i \in InstancesOf(p) :
    /\ Client(p)
    /\ Begin(p, CreateOp(token, i), FirstOfCreate(token))
    /\ orch' = [orch EXCEPT ![p] = NoOrch]

\* GET idempotency:stream:<key>, 0 for null
IdempotencyGetNothing(token) == 0
IdempotencyGet(token) == idem[token]

CreateStreamCheck(p) ==
  LET existingId == IdempotencyGet(op[p].token) IN
  /\ pc[p] = "c_get"
  /\ Go(p, [loc[p] EXCEPT !.existingId = existingId],
        IF existingId # 0 THEN "c_load" ELSE "c_save")
  /\ UNCHANGED << store, locks, idem, emitted, op, ret, orch, ttlBreach, applied >>
  /\ Quiet

\* getStream(existingId): the mapped stream is returned if it is still stored
CreateStreamExisting(p) ==
  LET existing == LoadStream(loc[p].existingId) IN
  /\ pc[p] = "c_load"
  /\ IF existing.status # "absent"
       THEN /\ ret' = [ret EXCEPT ![p] = Ok(existing)]
            /\ Go(p, [loc[p] EXCEPT !.note = "existing"], "done")
       ELSE /\ ret' = ret
            /\ Go(p, loc[p], "c_save")
  /\ UNCHANGED << store, locks, idem, emitted, op, orch, ttlBreach, applied >>
  /\ Quiet

\* the stream createStream builds: status CREATING, version 1, no participants
NewStream(id) ==
  [id |-> id, status |-> CREATING, version |-> 1, stoppedAt |-> 0,
   metadata |-> NoMeta, participants |-> << >>]

\* uuidv4() and saveStream; without a key the event follows at once
CreateStreamSave(p) ==
  LET id == nextId
      stream == NewStream(id)
  IN  /\ pc[p] = "c_save"
      /\ nextId <= MaxStreams
      /\ nextId' = id + 1
      /\ store' = [store EXCEPT ![id] = stream]
      /\ op' = [op EXCEPT ![p].sid = id]
      /\ IF op[p].token # "-"
           THEN /\ Go(p, [loc[p] EXCEPT !.stream = stream, !.note = "created"], "c_map")
                /\ ret' = ret
                /\ emitted' = emitted
           ELSE /\ Go(p, [loc[p] EXCEPT !.note = "created"], "done")
                /\ ret' = [ret EXCEPT ![p] = Ok(stream)]
                /\ emitted' = Emit("stream_created", id, op[p].inst)
      /\ UNCHANGED << locks, idem, orch, rooms, calls, ttlBreach, applied, bus, web >>

\* SETEX idempotency:stream:<key> <id>, then the stream_created event
CreateStreamMap(p) ==
  /\ pc[p] = "c_map"
  /\ idem' = [idem EXCEPT ![op[p].token] = op[p].sid]
  /\ emitted' = Emit("stream_created", op[p].sid, op[p].inst)
  /\ ret' = [ret EXCEPT ![p] = Ok(loc[p].stream)]
  /\ Go(p, loc[p], "done")
  /\ UNCHANGED << store, locks, op, orch, ttlBreach, applied >>
  /\ Quiet

\* the idempotency mapping outlives its ttl
ExpireIdempotency(token) ==
  /\ idem[token] # 0
  /\ idem' = [idem EXCEPT ![token] = 0]
  /\ UNCHANGED << store, locks, emitted, pc, op, loc, ret, orch, ttlBreach, applied >>
  /\ Quiet

GetOp(s, i) == [NoOp EXCEPT !.kind = "get", !.sid = s, !.inst = i]

GetStream(p) ==
  \E s \in Known, i \in InstancesOf(p) :
    /\ Client(p)
    /\ Begin(p, GetOp(s, i), "g_load")
    /\ orch' = [orch EXCEPT ![p] = NoOrch]

GetStreamLoad(p) ==
  LET stream == LoadStream(op[p].sid) IN
  /\ pc[p] = "g_load"
  /\ ret' = [ret EXCEPT ![p] = IF stream.status = "absent" THEN Null ELSE Ok(stream)]
  /\ Go(p, loc[p], "done")
  /\ UNCHANGED << store, locks, idem, emitted, op, orch, ttlBreach, applied >>
  /\ Quiet

DeleteOp(s, i) ==
  [NoOp EXCEPT !.kind = "delete", !.sid = s, !.inst = i]

DeleteStream(p) ==
  \E s \in Known, i \in InstancesOf(p) :
    /\ Client(p)
    /\ Begin(p, DeleteOp(s, i), "d_load")
    /\ orch' = [orch EXCEPT ![p] = NoOrch]

\* loadStream: false when the stream is not stored
DeleteStreamLoad(p) ==
  LET stream == LoadStream(op[p].sid) IN
  /\ pc[p] = "d_load"
  /\ IF stream.status = "absent"
       THEN /\ Go(p, [loc[p] EXCEPT !.note = "notfound"], "done")
       ELSE Go(p, [loc[p] EXCEPT !.stream = stream], "d_del")
  /\ UNCHANGED << store, locks, idem, emitted, op, ret, orch, ttlBreach, applied >>
  /\ Quiet

\* DEL stream:<id>, then the stream_stopped event with the snapshot loaded
DeleteStreamDel(p) ==
  LET s == op[p].sid IN
  /\ pc[p] = "d_del"
  /\ store' = [store EXCEPT ![s] = NoStream]
  /\ emitted' = Emit("stream_stopped", s, op[p].inst)
  /\ ret' = [ret EXCEPT ![p] = Ok(loc[p].stream)]
  /\ Go(p, [loc[p] EXCEPT !.note = "deleted"], "done")
  /\ UNCHANGED << locks, idem, op, orch, ttlBreach, applied >>
  /\ Quiet

-----------------------------------------------------------------------------
(***************************************************************************)
(* StreamOrchestratorService, PATCH /streams/:id and the room webhooks.    *)
(* A call of these runs in a slot and makes its repository calls there,    *)
(* one after the other.  In the phases "return" and "raise" the last       *)
(* repository call of the call is under way or over: the call has          *)
(* returned, or raised, once that one is done.                             *)
(***************************************************************************)
\* a call arrives at the orchestrator, a route or a webhook
Arrive(p) ==
  /\ orch[p].phase \in Finished
  /\ ~Busy(p)
  /\ calls < MaxCalls
  /\ calls' = calls + 1

\* the call of slot p goes on to phase ph with repository call o
Proceed(p, ph, o, first) ==
  /\ orch' = [orch EXCEPT ![p].phase = ph]
  /\ Begin(p, o, first)

\* one more call of a LiveKitService method
Called(c) == [rooms EXCEPT ![c] = @ + 1]

\* what a step of the orchestrator leaves alone in redis
Aside ==
  UNCHANGED << store, locks, idem, nextId, emitted, ttlBreach, applied, bus, web >>

\* createStream: stateService.createStream(roomName, metadata, idempotencyKey)
OrchCreateStream(p, tokens) ==
  \E token \in tokens, i \in {Home(p)} :
    /\ Arrive(p)
    /\ orch' = [orch EXCEPT ![p] = [NoOrch EXCEPT !.kind = "create", !.phase = "creating"]]
    /\ Begin(p, CreateOp(token, i), FirstOfCreate(token))
    /\ rooms' = rooms
    /\ Aside

\* livekitService.createRoom answers: updateStreamStatus(ACTIVE) follows, or
\* updateStreamStatus(ERROR) in the catch block
OrchCreateRoom(p) ==
  /\ orch[p].kind = "create" /\ orch[p].phase = "creating"
  /\ pc[p] = "done"
  /\ rooms' = Called("createRoom")
  /\ \E created \in BOOLEAN :
       /\ orch' = [orch EXCEPT ![p].phase = IF created THEN "activating" ELSE "raise",
                               ![p].sid = ret[p].stream.id,
                               ![p].reused = (loc[p].note = "existing")]
       /\ Begin(p, StatusOp(ret[p].stream.id, IF created THEN ACTIVE ELSE ERROR,
                            NoVersion, op[p].inst), "acq")
  /\ calls' = calls
  /\ Aside

\* return this.stateService.getStream(stream.id)
OrchCreateReturn(p) ==
  /\ orch[p].kind = "create" /\ orch[p].phase = "activating"
  /\ pc[p] = "done"
  /\ Proceed(p, "return", GetOp(orch[p].sid, op[p].inst), "g_load")
  /\ UNCHANGED << rooms, calls >>
  /\ Aside

\* stopStream: getStream is not awaited, so `stream` is a promise, !stream is
\* false whatever the store holds, and updateStreamStatus(STOPPING) follows
OrchStopStream(p) ==
  \E s \in Known \cup {0}, i \in {Home(p)} :
    /\ Arrive(p)
    /\ orch' = [orch EXCEPT ![p] = [NoOrch EXCEPT !.kind = "stop", !.phase = "stopping", !.sid = s]]
    /\ Begin(p, StatusOp(s, STOPPING, NoVersion, i), "acq")
    /\ rooms' = rooms
    /\ Aside

\* livekitService.deleteRoom answers: updateStreamStatus(STOPPED) follows, or
\* updateStreamStatus(ERROR) in the catch block
OrchDeleteRoom(p) ==
  /\ orch[p].kind = "stop" /\ orch[p].phase = "stopping"
  /\ pc[p] = "done"
  /\ rooms' = Called("deleteRoom")
  /\ \E deleted \in BOOLEAN :
       Proceed(p, IF deleted THEN "stopped" ELSE "raise",
               StatusOp(orch[p].sid, IF deleted THEN STOPPED ELSE ERROR,
                        NoVersion, op[p].inst), "acq")
  /\ calls' = calls
  /\ Aside

\* return this.stateService.getStream(streamId) || null
OrchStopReturn(p) ==
  /\ orch[p].kind = "stop" /\ orch[p].phase = "stopped"
  /\ pc[p] = "done"
  /\ Proceed(p, "return", GetOp(orch[p].sid, op[p].inst), "g_load")
  /\ UNCHANGED << rooms, calls >>
  /\ Aside

\* getStream of the orchestrator: `stream` is a promise here too, and the
\* first thing awaited is livekitService.getRoom
OrchGetStream(p) ==
  \E s \in Known, i \in {Home(p)} :
    /\ Arrive(p)
    /\ orch' = [orch EXCEPT ![p] = [NoOrch EXCEPT !.kind = "read", !.phase = "room", !.sid = s,
                                                  !.found = LoadStream(s).status]]
    /\ Begin(p, [GetOp(s, i) EXCEPT !.kind = "none"], "done")
    /\ rooms' = rooms
    /\ Aside

\* what listRooms can answer; LiveKitService.getRoom turns an empty list
\* and a failure alike into null
RoomAnswers == {"present", "absent", "failed"}

\* stream.status === StreamStatus.ACTIVE, `stream` being the stream
StatusOfStream(found) == found
\* stream.status === StreamStatus.ACTIVE, `stream` being a promise: undefined
StatusOfPromise(found) == "undefined"

\* getRoom answers.  No room: stream.status is undefined on a promise, never
\* ACTIVE, so nothing is updated.  A room: getParticipants is awaited next.
OrchGetRoom(p) ==
  /\ orch[p].kind = "read" /\ orch[p].phase = "room"
  /\ rooms' = Called("getRoom")
  /\ \E room \in RoomAnswers :
       IF room = "present"
         THEN /\ orch' = [orch EXCEPT ![p].phase = "participants", ![p].room = room]
              /\ UNCHANGED << pc, op, loc, ret >>
         ELSE IF StatusOfPromise(orch[p].found) = ACTIVE
           THEN /\ orch' = [orch EXCEPT ![p].phase = "stopped", ![p].room = room]
                /\ Begin(p, StatusOp(orch[p].sid, STOPPED, NoVersion, op[p].inst), "acq")
           ELSE /\ orch' = [orch EXCEPT ![p].phase = "return", ![p].room = room]
                /\ Begin(p, GetOp(orch[p].sid, op[p].inst), "g_load")
  /\ calls' = calls
  /\ Aside

\* getParticipants answers and syncParticipants reads stream.participants of
\* a promise: the TypeError is caught and logged, the fresh read follows
\* (LiveKitService.getParticipants answers [] when listParticipants fails)
OrchGetParticipants(p) ==
  /\ orch[p].kind = "read" /\ orch[p].phase = "participants"
  /\ rooms' = Called("getParticipants")
  /\ \E listed \in {"listed", "failed"}, members \in SUBSET Users :
       /\ listed = "failed" => members = {}
       /\ orch' = [orch EXCEPT ![p].phase = "return", ![p].listed = listed,
                               ![p].members = members]
       /\ Begin(p, GetOp(orch[p].sid, op[p].inst), "g_load")
  /\ calls' = calls
  /\ Aside

\* a request that reads the stream and then sets its status: PATCH with a
\* status in its body, and the room_started and room_finished webhooks
Request(p, kind, statuses, versions) ==
  \E s \in Known, status \in statuses, expected \in versions, i \in {Home(p)} :
    /\ Arrive(p)
    /\ orch' = [orch EXCEPT ![p] =
                  [NoOrch EXCEPT !.kind = kind, !.phase = "get", !.sid = s,
                                 !.status = status, !.expected = expected]]
    /\ Begin(p, GetOp(s, i), "g_load")
    /\ rooms' = rooms
    /\ Aside

\* PATCH /streams/:id with { status, version }
PatchStream(p) == Request(p, "patch", {CREATING}, {NoVersion})

\* the stream is read: 404 if it is not stored, else updateStreamStatus
PatchUpdate(p) ==
  /\ orch[p].kind = "patch" /\ orch[p].phase = "get"
  /\ pc[p] = "done"
  /\ IF ret[p].ok
       THEN Proceed(p, "updated",
                    StatusOp(orch[p].sid, orch[p].status, orch[p].expected,
                             op[p].inst), "acq")
       ELSE /\ orch' = [orch EXCEPT ![p].phase = "notfound"]
            /\ UNCHANGED << pc, op, loc, ret >>
  /\ UNCHANGED << rooms, calls >>
  /\ Aside

\* const updatedStream = await stateService.getStream(id)
PatchReturn(p) ==
  /\ orch[p].kind = "patch" /\ orch[p].phase = "updated"
  /\ pc[p] = "done"
  /\ Proceed(p, "return", GetOp(orch[p].sid, op[p].inst), "g_load")
  /\ UNCHANGED << rooms, calls >>
  /\ Aside

\* the webhooks room_started and room_finished
HandleRoomStarted(p) == Request(p, "room_started", {ACTIVE}, {NoVersion})
HandleRoomFinished(p) == Request(p, "room_finished", {STOPPED}, {NoVersion})

\* the stream is read: a warning if it is not stored, else updateStreamStatus
HandleRoomUpdate(p) ==
  /\ orch[p].kind \in {"room_started", "room_finished"} /\ orch[p].phase = "get"
  /\ pc[p] = "done"
  /\ IF ret[p].ok
       THEN Proceed(p, "return",
                    StatusOp(orch[p].sid, orch[p].status, NoVersion, op[p].inst),
                    "acq")
       ELSE /\ orch' = [orch EXCEPT ![p].phase = "notfound"]
            /\ UNCHANGED << pc, op, loc, ret >>
  /\ UNCHANGED << rooms, calls >>
  /\ Aside

-----------------------------------------------------------------------------
(***************************************************************************)
(* The stream_events channel: emitStreamEvent publishes every event        *)
(* without awaiting it, and the subscriber each instance set up in         *)
(* initializeRedis passes on what other instances published.               *)
(***************************************************************************)
\* the events instance i produced, by their place in `emitted`, in order
OwnEvents(i) ==
  SelectSeq([k \in 1 .. Len(emitted) |-> k], LAMBDA k : emitted[k].instanceId = i)

\* publisher.publish(channel, message): redis appends it to the channel
ChannelPublishTwice(channel, e) == Append(Append(channel, e), e)
ChannelPublish(channel, e) == Append(channel, e)

\* .catch(error => logger.error(...)), and the try/catch of RedisService.publish:
\* a failed publication is logged, the result of no call changes
CaughtPublishRaised(ok, r) == IF ok THEN r ELSE Null
CaughtPublish(ok, r) == r

\* the publish emitStreamEvent started for the next event of instance i runs:
\* the message reaches the channel, or it does not (the instance is not yet
\* initialised, the service is not connected, publisher.publish raised) and
\* the event is dropped
Publish(i) ==
  /\ bus.sent[i] < Len(OwnEvents(i))
  /\ \E ok \in BOOLEAN :
       LET e == OwnEvents(i)[bus.sent[i] + 1] IN
       /\ bus' = IF ok
                   THEN [bus EXCEPT !.sent[i] = @ + 1,
                                    !.channel = ChannelPublish(@, e)]
                   ELSE [bus EXCEPT !.sent[i] = @ + 1, !.lost = @ \cup {e}]
       /\ ret' = [p \in Procs |-> CaughtPublish(ok, ret[p])]
  /\ UNCHANGED << store, locks, idem, nextId, emitted, pc, op, loc, orch, rooms,
                  calls, ttlBreach, applied, web >>

\* event.instanceId !== this.instanceId: the subscriber passes the event on
PassesOnAll(event, i) == TRUE
PassesOn(event, i) == event.instanceId # i

\* the subscriber of instance i handles the next message of the channel
Deliver(i) ==
  /\ bus.cursor[i] < Len(bus.channel)
  /\ LET e == bus.channel[bus.cursor[i] + 1] IN
     bus' = IF PassesOn(emitted[e], i)
              THEN [bus EXCEPT !.cursor[i] = @ + 1, !.got[i] = Append(@, e)]
              ELSE [bus EXCEPT !.cursor[i] = @ + 1]
  /\ UNCHANGED << store, locks, idem, nextId, emitted, pc, op, loc, ret, orch,
                  rooms, calls, ttlBreach, applied, web >>

-----------------------------------------------------------------------------
(***************************************************************************)
(* The repository under concurrent calls.                                  *)
(***************************************************************************)
StatusStep(p) ==
  \/ UpdateStreamStatusAcquire(p)
  \/ UpdateStreamStatusLoad(p)
  \/ UpdateStreamStatusSave(p)
  \/ ReleaseLockGet(p)
  \/ ReleaseLockDel(p)

MetadataStep(p) ==
  \/ UpdateStreamMetadataAcquire(p)
  \/ UpdateStreamMetadataLoad(p)
  \/ UpdateStreamMetadataSave(p)

ParticipantStep(p) ==
  \/ AddParticipantAcquire(p)
  \/ AddParticipantLoad(p)
  \/ AddParticipantSave(p)
  \/ RemoveParticipantAcquire(p)
  \/ RemoveParticipantLoad(p)
  \/ RemoveParticipantSave(p)

CreateStep(p) ==
  \/ CreateStreamSave(p)
  \/ CreateStreamMap(p)
  \/ CreateStreamCheck(p)
  \/ CreateStreamExisting(p)

DeleteStep(p) ==
  \/ DeleteStreamLoad(p)
  \/ DeleteStreamDel(p)

\* the status path: overlapping status updates, with and without an expected
\* version, from one instance or two, and locks that run out
Next ==
  \/ \E p \in Procs :
       \/ CreateStream(p, {"-"})
       \/ UpdateStreamStatus(p, Targets, Expected)
       \/ CreateStreamSave(p)
       \/ StatusStep(p)
  \/ \E s \in StreamIds : ExpireLock(UpdateKey(s))

Spec == Init /\ [][Next]_vars

\* creation, deletion and reading: tokens, their mappings and their expiry
NextCreate ==
  \/ \E p \in Procs :
       \/ CreateStream(p, {"-", "k1"})
       \/ DeleteStream(p)
       \/ GetStream(p)
       \/ OrchGetStream(p)
       \/ CreateStep(p)
       \/ DeleteStep(p)
       \/ GetStreamLoad(p)
       \/ OrchGetRoom(p)
       \/ OrchGetParticipants(p)
  \/ \E token \in Tokens : ExpireIdempotency(token)

SpecCreate == Init /\ [][NextCreate]_vars

\* the mutations of one stream: its status, its metadata and its membership,
\* overlapping with each other and with its deletion; no lock runs out
NextMutations ==
  \E p \in Procs :
    \/ CreateStream(p, {"-", "k1"})
    \/ UpdateStreamStatus(p, {ACTIVE}, {NoVersion})
    \/ UpdateStreamMetadata(p)
    \/ AddParticipant(p, {"u1"})
    \/ RemoveParticipant(p, {"u1"})
    \/ DeleteStream(p)
    \/ CreateStep(p)
    \/ DeleteStep(p)
    \/ StatusStep(p)
    \/ MetadataStep(p)
    \/ ParticipantStep(p)

SpecMutations == Init /\ [][NextMutations]_vars

\* the lifecycle: the orchestrator creating, reading and stopping streams
\* while PATCH requests and room webhooks set their status
NextOrch ==
  \E p \in Procs :
    \/ OrchCreateStream(p, {"k1"})
    \/ OrchStopStream(p)
    \/ PatchStream(p)
    \/ HandleRoomStarted(p)
    \/ HandleRoomFinished(p)
    \/ OrchCreateRoom(p)
    \/ OrchCreateReturn(p)
    \/ OrchDeleteRoom(p)
    \/ OrchStopReturn(p)
    \/ PatchUpdate(p)
    \/ PatchReturn(p)
    \/ HandleRoomUpdate(p)
    \/ CreateStep(p)
    \/ StatusStep(p)
    \/ GetStreamLoad(p)
    \/ OrchGetStream(p)
    \/ OrchGetRoom(p)
    \/ OrchGetParticipants(p)

SpecOrch == Init /\ [][NextOrch]_vars

\* the events of two instances on the shared channel
NextEvents ==
  \/ \E p \in Procs :
       \/ CreateStream(p, {"-"})
       \/ UpdateStreamStatus(p, {ACTIVE}, {NoVersion})
       \/ CreateStreamSave(p)
       \/ StatusStep(p)
  \/ \E i \in Instances :
       \/ Publish(i)
       \/ Deliver(i)

SpecEvents == Init /\ [][NextEvents]_vars

\* the process of a call that holds the lock dies inside the try block of
\* updateStreamStatus: the finally block never runs, the key stays set
Crash(p) ==
  /\ pc[p] \in {"load", "save"}
  /\ loc[p].locked
  /\ pc' = [pc EXCEPT ![p] = "crashed"]
  /\ loc' = [loc EXCEPT ![p] = [NoLoc EXCEPT !.note = "crashed"]]
  /\ UNCHANGED << store, locks, idem, emitted, op, ret, orch, ttlBreach, applied >>
  /\ Quiet

\* updateStreamStatus with holders that may die; EX ttl: redis removes a key
\* that stays set once its time to live has passed
NextLive ==
  \/ \E p \in Procs :
       \/ CreateStream(p, {"-"})
       \/ UpdateStreamStatus(p, {ACTIVE}, {NoVersion})
       \/ CreateStreamSave(p)
       \/ StatusStep(p)
       \/ Crash(p)
  \/ \E s \in StreamIds : ExpireLock(UpdateKey(s))

\* updateStreamStatus for an id no createStream has allocated (the id is a
\* string of the caller's choice)
UpdateStreamStatusUnknown(p) ==
  \E i \in InstancesOf(p) :
    /\ Client(p)
    /\ Begin(p, StatusOp(0, ACTIVE, NoVersion, i), "acq")
    /\ orch' = [orch EXCEPT ![p] = NoOrch]

\* updateStreamStatus for streams that exist and for one that does not
NextResults ==
  \/ \E p \in Procs :
       \/ CreateStream(p, {"-"})
       \/ UpdateStreamStatus(p, {ACTIVE}, Expected)
       \/ UpdateStreamStatusUnknown(p)
       \/ CreateStreamSave(p)
       \/ StatusStep(p)

SpecResults == Init /\ [][NextResults]_vars

SpecLive ==
  /\ Init
  /\ [][NextLive]_vars
  /\ \A s \in StreamIds : WF_vars(ExpireLock(UpdateKey(s)))

-----------------------------------------------------------------------------
(***************************************************************************)
(* createIdempotencyMiddleware: the replay of cached responses.            *)
(***************************************************************************)
MaxRuns == 3

\* the state of the repository, which the transport layer leaves alone here
repo ==
  << store, locks, idem, nextId, emitted, pc, op, loc, ret, orch, rooms, calls,
     ttlBreach, applied, bus >>

\* JSON.stringify(responseData), stored by set(key, value, IDEMPOTENCY_TTL)
Stringify(response) ==
  [kind |-> "json", response |-> response, ttl |-> IDEMPOTENCY_TTL]

\* const { status, body, headers } = JSON.parse(cachedResponse), then
\* setHeader for each cached header and res.status(status).json(body)
ReplayBare(entry) == [entry.response EXCEPT !.headers = "-"]
Replay(entry) == entry.response

\* what the route handler answers when it runs: every run has its own result
HandlerResponse(endpoint, n) ==
  [status |-> IF endpoint = "POST /streams" THEN 201 ELSE 200,
   body |-> n, headers |-> "cors"]

\* lines 10-20: a request arrives; without the header, or with redis not
\* connected, it goes straight to the handler
Middleware(r) ==
  /\ reqs[r].pc \in {"idle", "done"}
  /\ runs < MaxRuns
  /\ \E e \in Endpoints, token \in HttpTokens, connected \in BOOLEAN :
       reqs' = [reqs EXCEPT ![r] =
                  [NoRequest EXCEPT
                     !.endpoint = e, !.token = token,
                     !.pc = IF token = "-" \/ ~connected THEN "handler" ELSE "get"]]
  /\ UNCHANGED << repo, cache, runs, clients, broadcasts >>

\* lines 22-37 and 59-62: redisService.get(key), which gives null when the
\* GET fails; a hit is replayed, a miss wraps res.json and calls next(), a
\* value that does not parse ends in the catch block, which calls next()
CacheGet(r) ==
  /\ reqs[r].pc = "get"
  /\ \E readable \in BOOLEAN :
       LET value == IF readable
                      THEN cache[CacheKey(reqs[r].endpoint, reqs[r].token)]
                      ELSE NoEntry
       IN  reqs' = [reqs EXCEPT ![r] =
             IF value.kind = "json"
               THEN [@ EXCEPT !.found = "json", !.pc = "done",
                              !.response = Replay(value)]
               ELSE IF value.kind = "none"
                 THEN [@ EXCEPT !.found = "none", !.pc = "handler", !.wrapped = TRUE]
                 ELSE [@ EXCEPT !.found = "invalid-json", !.pc = "handler"]]
  /\ UNCHANGED << repo, cache, runs, clients, broadcasts >>

\* the route handler runs and sends its response with res.json; the wrapper
\* of lines 43-56 starts the set and sends the response on
Handler(r) ==
  /\ reqs[r].pc = "handler"
  /\ runs' = runs + 1
  /\ reqs' = [reqs EXCEPT ![r] =
                [@ EXCEPT !.ran = TRUE,
                          !.response = HandlerResponse(reqs[r].endpoint, runs + 1),
                          !.pc = IF reqs[r].wrapped THEN "set" ELSE "done"]]
  /\ UNCHANGED << repo, cache, clients, broadcasts >>

\* line 51: the set the wrapper started runs; a set that fails is logged
CacheSet(r) ==
  /\ reqs[r].pc = "set"
  /\ \E ok \in BOOLEAN :
       cache' = IF ok
                  THEN [cache EXCEPT ![CacheKey(reqs[r].endpoint, reqs[r].token)] =
                          Stringify(reqs[r].response)]
                  ELSE cache
  /\ reqs' = [reqs EXCEPT ![r].pc = "done"]
  /\ UNCHANGED << repo, runs, clients, broadcasts >>

\* the time to live of a cached value runs out
ExpireEntry(k) ==
  /\ cache[k].kind # "none"
  /\ cache' = [cache EXCEPT ![k] = NoEntry]
  /\ UNCHANGED << repo, reqs, runs, clients, broadcasts >>

\* the key holds a value that is not JSON
InvalidEntry(k) ==
  /\ cache[k].kind # "invalid-json"
  /\ cache' = [cache EXCEPT ![k] = Malformed]
  /\ UNCHANGED << repo, reqs, runs, clients, broadcasts >>

NextMiddleware ==
  \/ \E r \in Requests :
       \/ Middleware(r)
       \/ CacheGet(r)
       \/ Handler(r)
       \/ CacheSet(r)
  \/ \E k \in CacheKeys :
       \/ ExpireEntry(k)
       \/ InvalidEntry(k)

SpecMiddleware == Init /\ [][NextMiddleware]_vars

-----------------------------------------------------------------------------
(***************************************************************************)
(* The client registries of GrpcService and WebSocketService and their     *)
(* broadcastEvent, both listeners of stream_event.                         *)
(***************************************************************************)
MaxBroadcasts == 1

\* grpc handleSubscribe: clients.add({ streamId, call }), with or without a
\* stream id; websocket handleConnection: clients.set(ws, { ws,
\* subscribedStreams: new Set() })
Register(g, h) ==
  /\ ~clients[g][h].registered
  /\ \E scope \in {{}} \cup {{s} : s \in StreamIds} :
       /\ g = "ws" => scope = {}
       /\ clients' = [clients EXCEPT ![g][h] =
                        [NoClient EXCEPT !.registered = TRUE, !.alive = TRUE,
                                         !.scope = scope]]
  /\ UNCHANGED << repo, cache, reqs, runs, broadcasts >>

\* websocket handleMessage: subscribe and unsubscribe
Subscribe(h, s) ==
  /\ clients["ws"][h].registered /\ clients["ws"][h].alive
  /\ s \notin clients["ws"][h].scope
  /\ clients' = [clients EXCEPT !["ws"][h].scope = @ \cup {s}]
  /\ UNCHANGED << repo, cache, reqs, runs, broadcasts >>

Unsubscribe(h, s) ==
  /\ clients["ws"][h].registered /\ clients["ws"][h].alive
  /\ s \in clients["ws"][h].scope
  /\ clients' = [clients EXCEPT !["ws"][h].scope = @ \ {s}]
  /\ UNCHANGED << repo, cache, reqs, runs, broadcasts >>

\* the connection of a handle breaks: the socket is no longer open, a write
\* to the call throws; the handle is still in the registry
Break(g, h) ==
  /\ clients[g][h].registered /\ clients[g][h].alive
  /\ clients' = [clients EXCEPT ![g][h].alive = FALSE]
  /\ UNCHANGED << repo, cache, reqs, runs, broadcasts >>

\* on cancelled / end (grpc), on close / error (websocket): clients.delete
Unregister(g, h) ==
  /\ clients[g][h].registered
  /\ clients' = [clients EXCEPT ![g][h] = NoClient]
  /\ UNCHANGED << repo, cache, reqs, runs, broadcasts >>

\* grpc: client.streamId && client.streamId === event.streamId
\* websocket: subscribedStreams.size > 0 && subscribedStreams.has(event.streamId)
SubscribedOrUnscoped(g, client, s) == client.scope = {} \/ s \in client.scope
Subscribed(g, client, s) ==
  IF g = "grpc" THEN client.scope = {s} ELSE client.scope # {} /\ s \in client.scope

\* one turn of the loop of broadcastEvent for event n of stream s: grpc
\* writes, and removes after the loop the client whose write threw;
\* websocket sends if the socket is open
Push(g, client, s, n) ==
  IF client.registered /\ Subscribed(g, client, s)
    THEN IF client.alive
           THEN [client EXCEPT !.got = Append(@, n)]
           ELSE IF g = "grpc" THEN NoClient ELSE client
    ELSE client

\* the event types a broadcast is told apart by: 'stream_stopped' and one
\* of the others
BroadcastTypes == {"stream_updated", "stream_stopped"}

\* the handles of a registry whose push throws: registered, in scope of the
\* event, connection broken
Throws(g, registry, s) ==
  {h \in Handles : /\ registry[h].registered /\ ~registry[h].alive
                   /\ Subscribed(g, registry[h], s)}

\* the handles that come before h in the iteration over a registry
Before(h) == IF h = "h2" THEN {"h1"} ELSE {}

\* the handles the loop of broadcastEvent gets to: grpc catches the error of
\* a write inside the loop, websocket sends to open sockets only, so the loop
\* gets to every handle
IteratedUntilThrow(g, registry, s) ==
  {h \in Handles : Before(h) \cap Throws(g, registry, s) = {}}
Iterated(g, registry, s) == Handles

\* grpc: clientsToRemove when the loop is over; websocket has none
ClientsToRemove(g, registry, s) ==
  IF g = "grpc" THEN Throws(g, registry, s) \cap Iterated(g, registry, s) ELSE {}

\* emit('stream_event', event) runs the broadcastEvent of both services
BroadcastEvent(type, s) ==
  /\ Len(broadcasts) < MaxBroadcasts
  /\ broadcasts' = Append(broadcasts,
                          [type |-> type, streamId |-> s,
                           removed |-> ClientsToRemove("grpc", clients["grpc"], s)])
  /\ clients' = [g \in Registries |->
                   [h \in Handles |->
                      IF h \in Iterated(g, clients[g], s)
                        THEN Push(g, clients[g][h], s, Len(broadcasts) + 1)
                        ELSE clients[g][h]]]
  /\ UNCHANGED << repo, cache, reqs, runs >>

NextBroadcast ==
  \/ \E g \in Registries, h \in Handles :
       \/ Register(g, h)
       \/ Break(g, h)
       \/ Unregister(g, h)
  \/ \E h \in Handles, s \in StreamIds :
       \/ Subscribe(h, s)
       \/ Unsubscribe(h, s)
  \/ \E type \in BroadcastTypes, s \in StreamIds : BroadcastEvent(type, s)

SpecBroadcast == Init /\ [][NextBroadcast]_vars

\* calls made one after the other: a call begins when no call is running
MaxTurns == 4
ParticipantMetas == {NoMeta, [title |-> "viewer", description |-> "-"]}

InTurn(p) ==
  /\ orch[p].phase \in Finished
  /\ \A q \in Procs : ~Busy(q)
  /\ calls < MaxTurns
  /\ calls' = calls + 1
  /\ UNCHANGED << store, locks, idem, nextId, emitted, rooms, ttlBreach, applied,
                  bus, web >>

\* handleParticipantJoined: addParticipant with the metadata of the webhook
AddParticipantInTurn(p) ==
  \E s \in Known, u \in Users, meta \in ParticipantMetas, i \in InstancesOf(p) :
    /\ InTurn(p)
    /\ Begin(p, AddOp(s, u, meta, i), "acq")
    /\ orch' = [orch EXCEPT ![p] = NoOrch]

\* handleParticipantLeft: removeParticipant
RemoveParticipantInTurn(p) ==
  \E s \in Known, u \in Users, i \in InstancesOf(p) :
    /\ InTurn(p)
    /\ Begin(p, RemoveOp(s, u, i), "acq")
    /\ orch' = [orch EXCEPT ![p] = NoOrch]

CreateStreamInTurn(p) ==
  /\ \A q \in Procs : ~Busy(q)
  /\ nextId = 1
  /\ CreateStream(p, {"-"})

NextParticipants ==
  \E p \in Procs :
    \/ CreateStreamInTurn(p)
    \/ AddParticipantInTurn(p)
    \/ RemoveParticipantInTurn(p)
    \/ CreateStreamSave(p)
    \/ ParticipantStep(p)
    \/ ReleaseLockGet(p)
    \/ ReleaseLockDel(p)

SpecParticipants == Init /\ [][NextParticipants]_vars

\* no call of any kind is under way
Idle == \A q \in Procs : ~Busy(q) /\ orch[q].phase \in Finished

\* reads of the orchestrator, one call after the other: a stream is created,
\* set ACTIVE or joined by a participant, and read with reconciliation
NextRead ==
  \E p \in Procs :
    \/ CreateStreamInTurn(p)
    \/ Idle /\ UpdateStreamStatus(p, {ACTIVE}, {NoVersion})
    \/ Idle /\ AddParticipant(p, {"u1"})
    \/ Idle /\ RemoveParticipant(p, {"u1"})
    \/ Idle /\ OrchGetStream(p)
    \/ OrchGetRoom(p)
    \/ OrchGetParticipants(p)
    \/ GetStreamLoad(p)
    \/ CreateStreamSave(p)
    \/ StatusStep(p)
    \/ ParticipantStep(p)

SpecRead == Init /\ [][NextRead]_vars

\* an error is thrown inside the try block of a mutation once the stream is
\* built (saveStream throws 'Redis not available', a listener of
\* 'stream_event' throws): nothing is returned and the finally block runs
Raise(p) ==
  /\ pc[p] = "save"
  /\ op[p].kind \in {"status", "metadata", "add", "remove"}
  /\ Go(p, [loc[p] EXCEPT !.note = "raised"], AfterBody(p))
  /\ ret' = [ret EXCEPT ![p] = Null]
  /\ UNCHANGED << store, locks, idem, emitted, op, orch, ttlBreach, applied >>
  /\ Quiet

\* the exits of the four mutations: applied, not found, version conflict and
\* a thrown error, with locks that run out
NextExits ==
  \/ \E p \in Procs :
       \/ CreateStreamInTurn(p)
       \/ UpdateStreamStatus(p, {ACTIVE}, Expected)
       \/ UpdateStreamStatusUnknown(p)
       \/ UpdateStreamMetadata(p)
       \/ AddParticipant(p, {"u1"})
       \/ RemoveParticipant(p, {"u1"})
       \/ CreateStreamSave(p)
       \/ StatusStep(p)
       \/ MetadataStep(p)
       \/ ParticipantStep(p)
       \/ Raise(p)
  \/ \E k \in {UpdateKey(1), ParticipantKey(1, "u1")} : ExpireLock(k)

SpecExits == Init /\ [][NextExits]_vars

\* createStream calls that all carry the token k1, overlapping or not; the
\* mapping of the token does not run out and nothing is deleted
NextTokens ==
  \E p \in Procs :
    \/ CreateStream(p, {"k1"})
    \/ CreateStep(p)

SpecTokens == Init /\ [][NextTokens]_vars

\* a further call arrives while others run
Arrives(p) ==
  /\ orch[p].phase \in Finished
  /\ ~Busy(p)
  /\ calls < MaxTurns
  /\ calls' = calls + 1
  /\ UNCHANGED << store, locks, idem, nextId, emitted, rooms, ttlBreach, applied,
                  bus, web >>

AddParticipantArrives(p) ==
  \E s \in Known, i \in InstancesOf(p) :
    /\ Arrives(p)
    /\ Begin(p, AddOp(s, "u1", NoMeta, i), "acq")
    /\ orch' = [orch EXCEPT ![p] = NoOrch]

\* one stream under a status update and joins and leaves that overlap it
NextVersions ==
  \E p \in Procs :
    \/ CreateStreamInTurn(p)
    \/ UpdateStreamStatus(p, {ACTIVE}, {NoVersion})
    \/ AddParticipantArrives(p)
    \/ RemoveParticipant(p, {"u1"})
    \/ CreateStreamSave(p)
    \/ StatusStep(p)
    \/ ParticipantStep(p)

SpecVersions == Init /\ [][NextVersions]_vars

-----------------------------------------------------------------------------
(***************************************************************************)
(* Properties of the status path (Spec).                                   *)
(***************************************************************************)
\* the call of slot p took a step
Stepped(p) == pc'[p] # pc[p] \/ orch'[p].phase # orch[p].phase

\* the call of slot p is between taking the lock and persisting: it is about
\* to reload the stream, or has reloaded it and is about to save it
InCriticalSection(p) ==
  op[p].kind = "status" /\ pc[p] \in {"load", "save"}

\* C1, as stated: two updateStreamStatus calls on the same stream id are never
\* both between reloading the stream and persisting it.
C1_CriticalSectionsNeverOverlap ==
  \A p, q \in Procs :
    (p # q /\ InCriticalSection(p) /\ InCriticalSection(q))
      => op[p].sid # op[q].sid

\* C1, amended: as long as no lock of the stream's update key has run out
\* while it was set, two updateStreamStatus calls on that stream id are never
\* both between reloading the stream and persisting it, and the call that is
\* there is the one that set the lock.
C1_ExclusiveWhileLockLives ==
  \A p \in Procs :
    (InCriticalSection(p) /\ ~ttlBreach[UpdateKey(op[p].sid)])
      => /\ locks[UpdateKey(op[p].sid)] = [owner |-> op[p].inst, by |-> p]
         /\ \A q \in Procs \ {p} :
              InCriticalSection(q) => op[q].sid # op[p].sid

\* one call is in its critical section and the overlapping call on the same
\* stream was refused the lock, no lock having run out
C1_Witness ==
  \E p, q \in Procs :
    /\ p # q
    /\ InCriticalSection(p)
    /\ op[q].kind = "status" /\ op[q].sid = op[p].sid
    /\ pc[q] = "done" /\ loc[q].note = "contention"
    /\ locks[UpdateKey(op[p].sid)].by = p
    /\ ~ttlBreach[UpdateKey(op[p].sid)]

\* the freshly reloaded stream has another version than the one expected
StaleAtLoad(p) ==
  /\ pc[p] = "load"
  /\ op[p].kind = "status"
  /\ LoadStream(op[p].sid).status # "absent"
  /\ op[p].expected # NoVersion
  /\ LoadStream(op[p].sid).version # op[p].expected

\* C2: an updateStreamStatus call whose expectedVersion differs from the
\* version of the stream it reloaded returns null; neither that step nor any
\* later step of the call changes the store or emits an event.
C2_StaleVersionNotApplied ==
  [][\A p \in Procs :
       /\ (StaleAtLoad(p) /\ Stepped(p))
            => /\ loc'[p].note = "conflict"
               /\ pc'[p] \in {"rel_get", "done"}
       /\ (loc[p].note = "conflict" \/ StaleAtLoad(p)) /\ Stepped(p)
            => /\ store' = store
               /\ emitted' = emitted
               /\ applied' = applied
       /\ loc'[p].note = "conflict" => ret'[p] = Null]_vars

\* a call that expected version 1 has returned after meeting a stored stream
\* of a later version, which is still as stored
C2_Witness ==
  \E p \in Procs :
    /\ pc[p] = "done"
    /\ loc[p].note = "conflict"
    /\ ret[p] = Null
    /\ store[op[p].sid].version > op[p].expected
    /\ store[op[p].sid].version = 1 + applied[op[p].sid]

(***************************************************************************)
(* Properties of creation and deletion (SpecCreate).                       *)
(***************************************************************************)
\* the events of one type emitted for stream s
EventsOf(type, s, events) ==
  {i \in DOMAIN events : events[i].type = type /\ events[i].streamId = s}

\* C5: a createStream call that finds the mapping of its token live and the
\* mapped stream still stored returns that stream, so the id the first call
\* returned; it stores no stream, allocates no id and emits no event, and the
\* mapped stream has exactly one stream_created event.
C5_SameTokenSameStream ==
  [][\A p \in Procs :
       /\ (pc[p] = "c_get" /\ idem[op[p].token] # 0 /\ Stepped(p))
            => /\ pc'[p] = "c_load"
               /\ loc'[p].existingId = idem[op[p].token]
               /\ UNCHANGED << store, emitted, nextId >>
       /\ (pc[p] = "c_load" /\ LoadStream(loc[p].existingId).status # "absent"
             /\ Stepped(p))
            => /\ pc'[p] = "done"
               /\ ret'[p] = Ok(store[loc[p].existingId])
               /\ ret'[p].stream.id = loc[p].existingId
               /\ UNCHANGED << store, emitted, nextId >>
       /\ \A token \in Tokens :
            idem'[token] # 0
              => Cardinality(EventsOf("stream_created", idem'[token], emitted')) = 1]_vars

\* the second call with the token has returned the stream of the first: one
\* stream allocated, one stream_created event
C5_Witness ==
  \E p \in Procs :
    /\ pc[p] = "done"
    /\ loc[p].note = "existing"
    /\ ret[p].ok /\ ret[p].stream.id = idem[op[p].token]
    /\ nextId = 2
    /\ Len(emitted) = 1 /\ emitted[1].type = "stream_created"

\* C10, as stated: deleteStream of an id that is not stored returns false and
\* emits nothing; deleteStream of a stored stream returns true and removes it;
\* and however the deleteStream calls of an id overlap, exactly one
\* stream_stopped event is emitted for it.
C10_DeleteEmitsOneStopped ==
  [][/\ \A p \in Procs :
          /\ (pc[p] = "d_load" /\ LoadStream(op[p].sid).status = "absent"
                /\ Stepped(p))
               => /\ pc'[p] = "done"
                  /\ ~ret'[p].ok
                  /\ UNCHANGED << store, emitted >>
          /\ (pc[p] = "d_del" /\ Stepped(p))
               => /\ ret'[p].ok
                  /\ store'[op[p].sid] = NoStream
     /\ \A s \in StreamIds :
          Cardinality(EventsOf("stream_stopped", s, emitted'))
            = IF s \in Known /\ store'[s] = NoStream THEN 1 ELSE 0]_vars

(***************************************************************************)
(* Properties of the mutations of a stream (SpecMutations).                *)
(***************************************************************************)
\* C3, as stated: under any interleaving of updateStreamStatus,
\* updateStreamMetadata, addParticipant and removeParticipant on a stream, its
\* stored version is 1 plus the number of mutations that reported success.
C3_VersionCountsMutations ==
  \A s \in StreamIds :
    store[s].status # "absent" => store[s].version = 1 + applied[s]

(***************************************************************************)
(* Properties of the lifecycle (SpecOrch).                                 *)
(***************************************************************************)
\* C4, as stated: once the stored status of a stream is STOPPED or ERROR, no
\* step of an orchestrator call, a PATCH request or a room webhook changes it.
C4_TerminalStatusStays ==
  [][\A s \in StreamIds :
       store[s].status \in {STOPPED, ERROR}
         => store'[s].status = store[s].status]_vars

\* C6, as stated: an orchestrator createStream whose token was mapped to a
\* stream still stored leaves the status and the version of that stream as
\* they were, emits no event, and returns that stream.
C6_ReusedTokenIsNoOp ==
  [][\A p \in Procs :
       (orch[p].kind = "create" /\ orch[p].reused /\ Stepped(p))
         => /\ store'[orch[p].sid].status = store[orch[p].sid].status
            /\ store'[orch[p].sid].version = store[orch[p].sid].version
            /\ emitted' = emitted
            /\ (orch[p].phase = "return" /\ pc[p] = "g_load")
                 => ret'[p] = Ok(store[orch[p].sid])]_vars

\* the last repository call of the call of slot p completes in this step
Completes(p, kind, phase) ==
  /\ orch[p].kind = kind /\ orch[p].phase = phase
  /\ pc[p] # "done" /\ pc'[p] = "done"

\* C7, as stated: once createRoom has succeeded, the stream of an orchestrator
\* createStream is stored as CREATING at version 1 or as ACTIVE at version 2
\* and as nothing else, and the stream the call returns is ACTIVE at version 2.
C7_CreateGoesCreatingThenActive ==
  [][\A p \in Procs :
       /\ (orch[p].kind = "create" /\ orch[p].phase = "activating" /\ Stepped(p))
            => \/ /\ store'[orch[p].sid].status = CREATING
                  /\ store'[orch[p].sid].version = 1
               \/ /\ store'[orch[p].sid].status = ACTIVE
                  /\ store'[orch[p].sid].version = 2
       /\ Completes(p, "create", "return")
            => /\ ret'[p].ok
               /\ ret'[p].stream.status = ACTIVE
               /\ ret'[p].stream.version = 2]_vars

\* C8, as stated: when an orchestrator createStream raises after createRoom
\* failed, its stream is stored with status ERROR at version 2.
C8_FailedCreateEndsInError ==
  [][\A p \in Procs :
       Completes(p, "create", "raise")
         => /\ store'[orch[p].sid].status = ERROR
            /\ store'[orch[p].sid].version = 2]_vars

\* C9, as stated: an orchestrator stopStream calls deleteRoom only for a
\* stored stream, whose status is then STOPPING; it returns the stream as
\* STOPPED when deleteRoom succeeded and leaves it stored as ERROR when it
\* raises; for an id that is not stored it calls nothing of LiveKit and
\* changes neither the store nor the events.
C9_StopGoesStoppingThenStopped ==
  [][\A p \in Procs :
       /\ (orch[p].kind = "stop" /\ rooms'["deleteRoom"] # rooms["deleteRoom"]
             /\ Stepped(p))
            => LoadStream(orch[p].sid).status = STOPPING
       /\ (orch[p].kind = "stop" /\ LoadStream(orch[p].sid).status = "absent"
             /\ Stepped(p))
            => UNCHANGED << store, emitted, rooms >>
       /\ Completes(p, "stop", "return")
            => ret'[p].ok /\ ret'[p].stream.status = STOPPED
       /\ Completes(p, "stop", "raise")
            => store'[orch[p].sid].status = ERROR]_vars

\* C11, as stated: a stream that deleteStream has removed (it returned true)
\* is never stored again, whatever mutations of that id are in flight or
\* follow.
C11_DeletedStaysDeleted ==
  [][\A s \in Known : store[s] = NoStream => store'[s] = NoStream]_vars

\* the step is the save of an addParticipant for a participant who is in the
\* stream and has not left
RefreshSave(p, s) ==
  /\ pc[p] = "save" /\ pc'[p] # "save"
  /\ op[p].kind = "add" /\ op[p].sid = s
  /\ loc[p].note = "refresh"

\* the step is the save of a createStream with a token: the event follows
\* the mapping of the token
TokenSave(p, s) ==
  /\ pc[p] = "c_save" /\ pc'[p] = "c_map"
  /\ op'[p].sid = s

\* this step emitted exactly one event, for stream s
EmitsOne(s) ==
  /\ Len(emitted') = Len(emitted) + 1
  /\ emitted'[Len(emitted')].streamId = s

\* C12, amended: a step of a repository call that persists a change to a
\* stream emits exactly one event for that stream, at the instance of the
\* call, with two exceptions: the save of an addParticipant that refreshes an
\* active participant emits none, and a createStream with a token emits its
\* one event after it has mapped the token.  No step emits two events.
C12_OneEventUnlessRefresh ==
  [][/\ \A s \in StreamIds :
          store'[s] # store[s]
            => \E p \in Procs :
                 /\ Stepped(p)
                 /\ IF RefreshSave(p, s) \/ TokenSave(p, s)
                      THEN emitted' = emitted
                      ELSE /\ EmitsOne(s)
                           /\ emitted'[Len(emitted')].instanceId = op[p].inst
     /\ \A p \in Procs :
          (pc[p] = "c_map" /\ Stepped(p)) => EmitsOne(op[p].sid)
     /\ Len(emitted') <= Len(emitted) + 1]_vars

\* a participant was added and then refreshed: three changes of the stream
\* were persisted, its creation included, and two events emitted
C12_Witness ==
  \E p \in Procs :
    /\ pc[p] = "done" /\ loc[p].note = "refresh" /\ ret[p].ok
    /\ store[op[p].sid].version = 3
    /\ applied[op[p].sid] = 2
    /\ Len(emitted) = 2
    /\ emitted[2].type = "participant_joined"

\* C12, as stated: a step of a repository call that persists a change to a
\* stream emits one event for that stream, unless it is the save of a
\* createStream with a token, whose event follows the mapping.
C12_PersistedChangeEmitsEvent ==
  [][\A s \in StreamIds :
       store'[s] # store[s]
         => \/ /\ Len(emitted') = Len(emitted) + 1
               /\ emitted'[Len(emitted')].streamId = s
            \/ \E p \in Procs : pc'[p] = "c_map" /\ op'[p].sid = s]_vars

(***************************************************************************)
(* Properties of the event channel (SpecEvents).                           *)
(***************************************************************************)
\* how often the local subscribers of instance i were notified of event e:
\* once by emitStreamEvent if i produced it, and once for every time the
\* subscriber of i passed it on
Notified(i, e) ==
  (IF emitted[e].instanceId = i THEN 1 ELSE 0)
    + Cardinality({k \in DOMAIN bus.got[i] : bus.got[i][k] = e})

\* the message of event e is on the channel and the subscriber of instance i
\* has handled it
Handled(i, e) ==
  \E k \in 1 .. bus.cursor[i] : bus.channel[k] = e

\* C13: the local subscribers of an instance are notified exactly once of
\* every event the instance produced, also after the event has come back to
\* it on the channel.
C13_OwnEventOnce ==
  \A i \in Instances :
    \A e \in DOMAIN emitted :
      emitted[e].instanceId = i => Notified(i, e) = 1

\* an event has come back to the instance that produced it, and its
\* subscriber has handled it
C13_Witness ==
  \E i \in Instances :
    \E e \in DOMAIN emitted :
      /\ emitted[e].instanceId = i
      /\ Handled(i, e)
      /\ Notified(i, e) = 1

\* C14, as stated: once the publish of an event has run and the subscriber of
\* an instance has handled all of the channel, the local subscribers of that
\* instance have been notified of the event exactly once; never are they
\* notified twice.
C14_EveryInstanceNotifiedOnce ==
  \A i \in Instances :
    \A e \in DOMAIN emitted :
      /\ Notified(i, e) <= 1
      /\ (/\ \E k \in 1 .. bus.sent[emitted[e].instanceId] :
                OwnEvents(emitted[e].instanceId)[k] = e
          /\ bus.cursor[i] = Len(bus.channel))
           => Notified(i, e) = 1

\* C14, amended: the local subscribers of an instance are never notified
\* twice of an event; they have been notified exactly once of every event
\* whose message reached the channel and was handled by the subscriber of the
\* instance; of an event whose publication failed only the local subscribers
\* of the producing instance are notified.
C14_PublishedEventNotifiedOnce ==
  \A i \in Instances :
    \A e \in DOMAIN emitted :
      /\ Notified(i, e) <= 1
      /\ Handled(i, e) => Notified(i, e) = 1
      /\ e \in bus.lost
           => Notified(i, e) = (IF emitted[e].instanceId = i THEN 1 ELSE 0)

\* both instances have handled a channel of two messages, and the local
\* subscribers of i2 were notified of an event of i1
C14_Witness ==
  /\ Len(bus.channel) = 2
  /\ \A i \in Instances : bus.cursor[i] = 2
  /\ \E e \in DOMAIN emitted :
       /\ emitted[e].instanceId = "i1"
       /\ Handled("i2", e)
       /\ Notified("i2", e) = 1

\* C15: a publication that fails changes neither what was emitted locally nor
\* the result or the progress of any call nor the store, and the local
\* subscribers of the producing instance have been notified once of the
\* event it was for.
C15_PublishFailureStaysLocal ==
  [][bus'.lost # bus.lost
       => /\ UNCHANGED << emitted, ret, pc, store >>
          /\ \A e \in bus'.lost :
               /\ e \in DOMAIN emitted
               /\ Notified(emitted[e].instanceId, e)' = 1]_vars

\* the publication of the event of a status update failed, and the update
\* has returned the updated stream
C15_Witness ==
  \E e \in bus.lost :
    \E p \in Procs :
      /\ pc[p] = "done" /\ op[p].kind = "status"
      /\ ret[p].ok
      /\ emitted[e].type = "stream_updated"
      /\ emitted[e].streamId = op[p].sid
      /\ emitted[e].instanceId = op[p].inst

(***************************************************************************)
(* Properties of the release and the expiry of locks.                      *)
(***************************************************************************)
\* C16: the DEL of a release leaves the lock of its key alone when that lock
\* was taken by another call than the releasing one (the lock of the
\* releasing call expired and the key was acquired again).
C16_ReleaseLeavesOthersLock ==
  [][\A p \in Procs :
       (/\ pc[p] = "rel_del" /\ pc'[p] = "done"
        /\ locks[LockKeyOf(op[p])].owner # "free"
        /\ locks[LockKeyOf(op[p])].by # p)
         => locks'[LockKeyOf(op[p])] = locks[LockKeyOf(op[p])]]_vars

\* a call died holding the lock of key k, and the key is still set
HeldByCrashed(k) ==
  /\ locks[k].owner # "free"
  /\ pc[locks[k].by] = "crashed"

\* C17: a lock whose holder died in its critical section does not stay: from
\* every state where a key is locked, and so from those where its holder has
\* crashed, a state follows where the key is free and an acquire by any call
\* succeeds.
C17_NoKeyLockedForever ==
  \A s \in StreamIds :
    /\ HeldByCrashed(UpdateKey(s))
         ~> (\A p \in Procs : AcquireLock(UpdateKey(s), Home(p), p))
    /\ (locks[UpdateKey(s)].owner # "free")
         ~> (locks[UpdateKey(s)].owner = "free")

\* a call died holding the lock, the lock expired, and a later call has
\* acquired the key
C17_Witness ==
  \E p \in Procs :
    LET k == LockKeyOf(op[p]) IN
    /\ pc[p] = "crashed"
    /\ ttlBreach[k]
    /\ locks[k].owner # "free"
    /\ locks[k].by # p
    /\ pc[locks[k].by] \in {"load", "save"}

(***************************************************************************)
(* Properties of lock contention (SpecMutations).                          *)
(***************************************************************************)
\* the call of slot p runs acquireLock while the key is set
Contended(p) ==
  /\ pc[p] = "acq" /\ pc'[p] # "acq"
  /\ locks[LockKeyOf(op[p])].owner # "free"

\* C18: an updateStreamStatus or updateStreamMetadata call whose acquireLock
\* finds the key set is over with that step and returns null: it loads and
\* saves nothing, emits nothing, and leaves the lock of the other call set.
C18_ContendedUpdateReturnsNull ==
  [][\A p \in Procs :
       (Contended(p) /\ op[p].kind \in {"status", "metadata"})
         => /\ pc'[p] = "done"
            /\ ret'[p] = Null
            /\ UNCHANGED << store, emitted, locks, applied >>]_vars

\* an updateStreamMetadata call has returned null on contention while the
\* call that holds the lock is still in its critical section
C18_Witness ==
  \E p \in Procs :
    /\ pc[p] = "done" /\ op[p].kind = "metadata"
    /\ loc[p].note = "contention"
    /\ ret[p] = Null
    /\ locks[LockKeyOf(op[p])].owner # "free"
    /\ locks[LockKeyOf(op[p])].by # p
    /\ pc[locks[LockKeyOf(op[p])].by] \in {"load", "save"}

\* the call of slot p is an addParticipant or removeParticipant that runs
\* without its lock
Unlocked(p) ==
  op[p].kind \in {"add", "remove"} /\ ~loc[p].locked

\* C19: an addParticipant or removeParticipant call whose acquireLock finds
\* the key set goes on without the lock: it reloads the stream, and if the
\* stream is stored it saves its mutation and returns the stream it saved
\* (removeParticipant of a participant who is absent or has left returns the
\* stream as loaded); such a call returns null only if the stream was not
\* stored when it loaded it.
C19_ContendedParticipantProceeds ==
  [][\A p \in Procs :
       /\ (Contended(p) /\ op[p].kind \in {"add", "remove"})
            => /\ pc'[p] = "load"
               /\ ~loc'[p].locked
               /\ UNCHANGED << store, emitted, locks, ret >>
       /\ (Unlocked(p) /\ pc[p] = "load" /\ pc'[p] # "load"
             /\ store[op[p].sid] # NoStream)
            => \/ pc'[p] = "save" /\ loc'[p].stream.version = store[op[p].sid].version + 1
               \/ pc'[p] = "done" /\ ret'[p] = Ok(store[op[p].sid])
       /\ (Unlocked(p) /\ pc[p] = "save" /\ pc'[p] # "save")
            => /\ store'[op[p].sid] = loc[p].stream
               /\ ret'[p] = Ok(loc[p].stream)
               /\ pc'[p] = "done"
       /\ (pc'[p] = "done" /\ op'[p].kind \in {"add", "remove"} /\ ret'[p] = Null)
            => loc'[p].note = "notfound"]_vars

\* an addParticipant call found the lock of its participant held by another
\* call that is still in its critical section, went on without the lock,
\* reloaded the stream and is about to save the participant it added
C19_Witness ==
  \E p \in Procs :
    /\ pc[p] = "save" /\ op[p].kind = "add"
    /\ ~loc[p].locked
    /\ loc[p].note = "joined"
    /\ locks[LockKeyOf(op[p])].owner # "free"
    /\ locks[LockKeyOf(op[p])].by # p
    /\ pc[locks[LockKeyOf(op[p])].by] \in {"load", "save"}

\* C20: the result of an updateStreamStatus or updateStreamMetadata call that
\* was not applied because the lock was held or the version did not match
\* differs from the result of a call for a stream that is not stored.
C20_NotAppliedDiffersFromNotFound ==
  \A p, q \in Procs :
    (/\ pc[p] = "done" /\ op[p].kind \in {"status", "metadata"}
     /\ pc[q] = "done" /\ op[q].kind \in {"status", "metadata"}
     /\ loc[p].note \in {"contention", "conflict"}
     /\ loc[q].note = "notfound")
      => ret[p] # ret[q]

(***************************************************************************)
(* Properties of addParticipant and removeParticipant in calls made one    *)
(* after the other (SpecParticipants).                                     *)
(***************************************************************************)
\* the record of participant u in a stream
RecordOf(stream, u) == stream.participants[FindIndex(stream.participants, u)]

\* the call of slot p is about to save, and does
Saves(p, kind) ==
  pc[p] = "save" /\ op[p].kind = kind /\ pc'[p] # "save"

\* C21: addParticipant for a participant who is in the stored stream and has
\* not left saves a stream with as many participant records as before, all
\* others untouched, in which the record of the participant keeps its
\* joinedAt and carries the metadata of the call; the call returns that
\* stream.
C21_AddActiveParticipantRefreshes ==
  [][\A p \in Procs :
       LET s == op[p].sid
           u == op[p].user
           i == FindIndex(store[s].participants, u)
       IN  (Saves(p, "add") /\ IsRefresh(store[s], u))
             => /\ Len(store'[s].participants) = Len(store[s].participants)
                /\ \A j \in 1 .. Len(store[s].participants) :
                     j # i => store'[s].participants[j] = store[s].participants[j]
                /\ store'[s].participants[i].id = u
                /\ store'[s].participants[i].joinedAt = store[s].participants[i].joinedAt
                /\ store'[s].participants[i].leftAt = 0
                /\ store'[s].participants[i].metadata = op[p].meta
                /\ ret'[p] = Ok(store'[s])]_vars

\* a second addParticipant for a participant of a stream with two
\* participants has returned: it replaced the stored metadata and kept the
\* joinedAt of the first call
C21_Witness ==
  \E p \in Procs :
    /\ pc[p] = "done" /\ op[p].kind = "add"
    /\ loc[p].note = "refresh"
    /\ ret[p] = Ok(store[op[p].sid])
    /\ Len(store[op[p].sid].participants) = 2
    /\ RecordOf(store[op[p].sid], op[p].user).metadata = op[p].meta
    /\ op[p].meta # NoMeta
    /\ RecordOf(store[op[p].sid], op[p].user).joinedAt < op[p].at

\* C22: no step of a removeParticipant call for a participant who is not in
\* the stored stream, or who has left it, changes the stored stream (its
\* version and the leftAt of the participant stay) or emits an event; the
\* call saves nothing and returns the stream as stored.
C22_RemoveAbsentOrLeftIsNoOp ==
  [][\A p \in Procs :
       (/\ op[p].kind = "remove" /\ pc'[p] # pc[p]
        /\ pc[p] \in {"acq", "load", "save", "rel_get", "rel_del"}
        /\ store[op[p].sid] # NoStream
        /\ \/ FindIndex(store[op[p].sid].participants, op[p].user) = 0
           \/ RecordOf(store[op[p].sid], op[p].user).leftAt # 0)
         => /\ UNCHANGED << store, emitted, applied >>
            /\ pc'[p] # "save"
            /\ pc[p] = "load" => ret'[p] = Ok(store[op[p].sid])]_vars

\* a removeParticipant call for a participant who had already left has
\* returned the stored stream, in which version and leftAt are those the
\* first removeParticipant saved
C22_Witness ==
  \E p \in Procs :
    /\ pc[p] = "done" /\ op[p].kind = "remove"
    /\ loc[p].note = "unchanged"
    /\ ret[p] = Ok(store[op[p].sid])
    /\ FindIndex(store[op[p].sid].participants, op[p].user) # 0
    /\ RecordOf(store[op[p].sid], op[p].user).leftAt # 0
    /\ store[op[p].sid].version = 3
    /\ Len(emitted) = 3

\* the records a stream holds for participant u
RecordsOf(stream, u) ==
  {j \in 1 .. Len(stream.participants) : stream.participants[j].id = u}

\* slot q holds the result of the first addParticipant of u to stream s, slot
\* p that of a later one, and between them one removeParticipant was saved:
\* the sequence add, remove, add on a stream nothing else was done to
AddRemoveAdd(q, p, s, u) ==
  /\ pc[q] = "done" /\ op[q] = [op[q] EXCEPT !.kind = "add", !.sid = s, !.user = u]
  /\ pc[p] = "done" /\ op[p] = [op[p] EXCEPT !.kind = "add", !.sid = s, !.user = u]
  /\ ret[q].ok /\ ret[q].stream.version = 2
  /\ ret[p].ok /\ loc[p].note = "joined"
  /\ op[q].at < op[p].at
  /\ Cardinality(EventsOf("participant_left", s, emitted)) = 1
  /\ applied[s] = 3

\* C23: addParticipant(u), removeParticipant(u), addParticipant(u) in
\* sequence: the first save appends the one record of u, the second sets its
\* leftAt, the third clears the leftAt and gives the record a later joinedAt,
\* each save raises the version by one; after the three the stream holds one
\* record of u, active, joined later than at first, at the version before
\* the sequence plus 3.
C23_AddRemoveAddRejoins ==
  [][/\ \A p \in Procs :
          LET s == op[p].sid
              u == op[p].user
              i == FindIndex(store[s].participants, u)
          IN  /\ (Saves(p, "add") /\ i = 0)
                   => /\ store'[s].version = store[s].version + 1
                      /\ store'[s].participants
                           = Append(store[s].participants,
                                    NewParticipant(u, op[p].meta, op[p].at))
              /\ (Saves(p, "remove") /\ i # 0)
                   => /\ store'[s].version = store[s].version + 1
                      /\ Cardinality(RecordsOf(store'[s], u)) = 1
                      /\ store'[s].participants[i].leftAt # 0
                      /\ store'[s].participants[i].joinedAt
                           = store[s].participants[i].joinedAt
              /\ (Saves(p, "add") /\ i # 0 /\ ~IsRefresh(store[s], u))
                   => /\ store'[s].version = store[s].version + 1
                      /\ Cardinality(RecordsOf(store'[s], u)) = 1
                      /\ store'[s].participants[i].leftAt = 0
                      /\ store'[s].participants[i].joinedAt
                           > store[s].participants[i].joinedAt
     /\ \A p, q \in Procs : \A s \in StreamIds : \A u \in Users :
          AddRemoveAdd(q, p, s, u)'
            => /\ store'[s].version = 1 + 3
               /\ ret'[p] = Ok(store'[s])
               /\ Len(store'[s].participants) = 1
               /\ RecordOf(store'[s], u).leftAt = 0
               /\ RecordOf(store'[s], u).joinedAt
                    > RecordOf(ret'[q].stream, u).joinedAt]_vars

\* the sequence has run, the first addParticipant from one slot, the last
\* from the other, and the stream is at version 4
C23_Witness ==
  \E p, q \in Procs : \E s \in StreamIds : \E u \in Users :
    /\ AddRemoveAdd(q, p, s, u)
    /\ store[s].version = 4
    /\ RecordOf(store[s], u).leftAt = 0
    /\ RecordOf(store[s], u).joinedAt > RecordOf(ret[q].stream, u).joinedAt

(***************************************************************************)
(* Properties of the stored participants and versions under concurrent     *)
(* calls (SpecMutations).                                                  *)
(***************************************************************************)
\* C24: every stored stream, and every stream a call is about to save, holds
\* at most one record per participant, so at most one active one.
C24_OneRecordPerParticipant ==
  \A u \in Users :
    /\ \A s \in StreamIds : Cardinality(RecordsOf(store[s], u)) <= 1
    /\ \A p \in Procs : Cardinality(RecordsOf(loc[p].stream, u)) <= 1

\* two addParticipant calls for one participant ran together, one of them
\* without the lock, both found the participant absent and both saved: the
\* stored stream holds one record
C24_Witness ==
  \E p, q \in Procs :
    /\ p # q
    /\ pc[p] = "done" /\ pc[q] = "done"
    /\ op[p].kind = "add" /\ op[q].kind = "add"
    /\ op[p].sid = op[q].sid /\ op[p].user = op[q].user
    /\ loc[p].note = "joined" /\ loc[q].note = "joined"
    /\ ret[p].ok /\ ret[q].ok
    /\ ret[p].stream.version = ret[q].stream.version
    /\ Cardinality(RecordsOf(store[op[p].sid], op[p].user)) = 1

\* C25: while a stream stays stored, a participant it holds a record of
\* keeps a record in it: no save takes the record of a participant away.
C25_ParticipantRecordStays ==
  [][\A s \in StreamIds : \A u \in Users :
       (/\ store[s] # NoStream /\ store'[s] # NoStream
        /\ RecordsOf(store[s], u) # {})
         => RecordsOf(store'[s], u) # {}]_vars

\* C26: the version of a stored stream never goes down from one stored
\* state of the stream to the next.
C26_VersionNeverDecreases ==
  [][\A s \in StreamIds :
       (store[s] # NoStream /\ store'[s] # NoStream)
         => store'[s].version >= store[s].version]_vars

(***************************************************************************)
(* Properties of the idempotency middleware (SpecMiddleware).              *)
(***************************************************************************)
\* the lookup of request r returns
Looked(r) == reqs[r].pc = "get" /\ reqs'[r].pc # "get"

\* C27: a request with a token whose lookup returns a cached response is
\* answered with the status, body and headers of that entry and is over; the
\* route handler does not run for it.
C27_HitReplaysCachedResponse ==
  [][\A r \in Requests :
       /\ (Looked(r) /\ reqs'[r].found = "json")
            => LET entry == cache[CacheKey(reqs[r].endpoint, reqs[r].token)] IN
               /\ entry.kind = "json"
               /\ reqs'[r].response.status = entry.response.status
               /\ reqs'[r].response.body = entry.response.body
               /\ reqs'[r].response.headers = entry.response.headers
               /\ reqs'[r].pc = "done"
               /\ runs' = runs
               /\ UNCHANGED cache
       /\ reqs'[r].found = "json" => ~reqs'[r].ran]_vars

\* a request got the cached response of an earlier request for the same route
\* and token, after the handler had also run for another request
C27_Witness ==
  \E r \in Requests :
    /\ reqs[r].pc = "done" /\ reqs[r].found = "json"
    /\ ~reqs[r].ran
    /\ reqs[r].response = cache[CacheKey(reqs[r].endpoint, reqs[r].token)].response
    /\ reqs[r].response.headers = "cors"
    /\ reqs[r].response.body < runs

\* C28: a cached response is stored with an expiry of 30 seconds.
C28_CachedForThirtySeconds ==
  \A k \in CacheKeys :
    cache[k].kind = "json" => cache[k].ttl = 30

\* C29: a request whose lookup found a value that is not JSON goes on to the
\* handler as a request whose lookup found nothing does: with res.json
\* wrapped, so that the response of the handler is cached.
C29_MalformedEntryHandledAsMiss ==
  \A r \in Requests :
    (reqs[r].pc = "handler" /\ reqs[r].found \in {"none", "invalid-json"})
      => reqs[r].wrapped

(***************************************************************************)
(* Properties of the broadcast registries (SpecBroadcast).                 *)
(***************************************************************************)
\* an event is broadcast
Broadcasts == Len(broadcasts') = Len(broadcasts) + 1

\* the broadcast pushes its event to handle h of registry g
PushedTo(g, h) ==
  /\ clients'[g][h].registered
  /\ clients'[g][h].got = Append(clients[g][h].got, Len(broadcasts'))

\* handle h of registry g is scoped to stream s
ScopedTo(g, h, s) == s \in clients[g][h].scope

Event == broadcasts'[Len(broadcasts')]

\* C31: after the broadcast of a stopped event for stream s has completed,
\* no handle scoped to s remains in the registry.
C31_StoppedEventTearsDown ==
  [][(Broadcasts /\ Event.type = "stream_stopped") =>
       \A g \in Registries, h \in Handles :
         ~(clients'[g][h].registered /\ ScopedTo(g, h, Event.streamId))]_vars

\* the push of this broadcast to handle h of registry g fails
PushFails(g, h) ==
  /\ clients[g][h].registered /\ ~clients[g][h].alive
  /\ ScopedTo(g, h, Event.streamId)

\* every open handle of registry g other than h that is scoped to the stream
\* of the event is pushed the event
OthersPushed(g, h) ==
  \A k \in Handles \ {h} :
    (clients[g][k].registered /\ clients[g][k].alive
       /\ ScopedTo(g, k, Event.streamId)) => PushedTo(g, k)

Reading(p) ==
  /\ orch[p].kind = "read"
  /\ ~(orch[p].phase = "return" /\ pc[p] = "done")

\* the read of slot p has returned
HasRead(p) == orch[p].kind = "read" /\ orch[p].phase = "return" /\ pc[p] = "done"

\* C33: when an orchestrator read finds that the room of the stream does not
\* exist, a stream that was ACTIVE is stored and returned as STOPPED, and a
\* stream in any other status keeps its status.
C33_AbsentRoomStopsActiveStream ==
  [][\A p \in Procs :
       (Completes(p, "read", "return") /\ orch[p].room = "absent")
         => IF orch[p].found = ACTIVE
              THEN /\ store'[orch[p].sid].status = STOPPED
                   /\ ret'[p].ok /\ ret'[p].stream.status = STOPPED
              ELSE store'[orch[p].sid].status = orch[p].found]_vars

\* a query of the read of slot p failed
QueryFailed(p) == orch[p].room = "failed" \/ orch[p].listed = "failed"

ActiveIds(stream) ==
  {stream.participants[i].id :
     i \in {j \in 1 .. Len(stream.participants) : stream.participants[j].leftAt = 0}}

\* C35: after an orchestrator read whose queries succeeded, no other call
\* running, the identities active in the stored stream are those of the room.
C35_ReadSyncsParticipants ==
  [][\A p \in Procs :
       (Completes(p, "read", "return") /\ orch[p].room = "present"
          /\ orch[p].listed = "listed")
         => ActiveIds(store'[orch[p].sid]) = orch[p].members]_vars

AwaitsLiveKit(p) ==
  /\ ~Busy(p)
  /\ \/ orch[p].kind = "create" /\ orch[p].phase = "creating" /\ pc[p] = "done"
     \/ orch[p].kind = "stop" /\ orch[p].phase = "stopping" /\ pc[p] = "done"
     \/ orch[p].kind = "read" /\ orch[p].phase \in {"room", "participants"}

StatusApplied(s) ==
  \E p \in Procs :
    /\ op[p].kind = "status" /\ op[p].sid = s
    /\ pc[p] = "save" /\ pc'[p] # "save"

\* C38: the stored status of a stream changes only when a status update is
\* applied to it: the status a status update stored stays until the next one
\* is applied, whatever addParticipant and removeParticipant calls overlap.
C38_StatusStaysUntilNextUpdate ==
  [][\A s \in StreamIds :
       (/\ store[s] # NoStream /\ store'[s] # NoStream
        /\ store'[s].status # store[s].status)
         => StatusApplied(s)]_vars

\* the calls of slots p and q are updateStreamStatus calls on the same stream
\* with the same expectedVersion
SameExpectation(p, q) ==
  /\ p # q
  /\ op[p].kind = "status" /\ op[q].kind = "status"
  /\ op[p].sid = op[q].sid
  /\ op[p].expected # NoVersion /\ op[p].expected = op[q].expected

C40_TokenDeduplicatesUnderOverlap ==
  /\ Cardinality({s \in StreamIds : store[s] # NoStream}) <= 1
  /\ Cardinality({i \in DOMAIN emitted : emitted[i].type = "stream_created"}) <= 1
  /\ \A p, q \in Procs :
       (/\ op[p].kind = "create" /\ op[q].kind = "create"
        /\ op[p].token = op[q].token /\ op[p].token # "-"
        /\ pc[p] = "done" /\ pc[q] = "done")
         => ret[p].stream.id = ret[q].stream.id

=============================================================================
